---- MODULE Spec2Model ----
(***************************************************************************)
(* Cross-backend test flow execution layer of the autotest QA agent:       *)
(* TestEngineManager.executeTestStrategy driving the Appium, Maestro and   *)
(* Playwright engines (initialize / executeTestFlow / cleanup).            *)
(*                                                                         *)
(* Every await of the TypeScript source is a point where another call on   *)
(* the same manager, or a still pending backend promise, may run; an       *)
(* action of this module is the synchronous code between two awaits.       *)
(* Backend calls (WebDriver session creation, browser launch, maestro     *)
(* CLI, screenshots, context close) resolve or reject nondeterministically.*)
(***************************************************************************)
EXTENDS Integers, Sequences, FiniteSets, TLC

(***************************************************************************)
(* Bounds of the model.                                                    *)
(***************************************************************************)
\* executeTestStrategy calls issued on the one TestEngineManager
NumCalls == 2
\* flows per strategy
MaxFlows == 2
\* flows per strategy when several calls share the manager
MaxSharedFlows == 1
\* steps per flow when calls on the shared manager overlap
MaxSharedSteps == 1
Calls == 1..NumCalls

Engines == {"appium", "maestro", "playwright"}

\* the browser list a config can carry; config.playwright.browsers defaults
\* to ['chromium'] (src/src/utils/config.ts:29)
BrowserNames == {"chromium"}

\* TestConfig values passed by callers: undefined and {browsers: []}
Configs == {"undefined", "nobrowsers"}

\* testConfig?.browsers || config.playwright.browsers
BrowsersToLaunch(c) == IF c = "nobrowsers" THEN {} ELSE {"chromium"}

NoHandle == 0

\* the device session (appium) or browser (playwright) the initialize() of
\* call c creates: every backend call returns a fresh object
Handle(c, e) == IF e = "appium" THEN 2 * c - 1 ELSE 2 * c

(***************************************************************************)
(* Step strings are sequences of characters.                               *)
(***************************************************************************)
StepLaunch == <<"l","a","u","n","c","h"," ","a","p","p">>
StepTap == <<"T","a","p"," ","\"","L","o","g","i","n","\"">>
StepVerify == <<"v","e","r","i","f","y"," ","\"","W","e","l","c","o","m","e","\"">>
StepWait == <<"w","a","i","t"," ","5"," ","s","e","c","o","n","d","s">>
StepBack == <<"g","o"," ","b","a","c","k">>
StepGoto == <<"l","a","u","n","c","h"," ","h","t","t","p","s",":","/","/","e","x","a","m","p","l","e",".","c","o","m">>

\* String.prototype.toLowerCase, character by character
ToLowerChar(ch) ==
    CASE ch = "A" -> "a"
      [] ch = "B" -> "b"
      [] ch = "C" -> "c"
      [] ch = "D" -> "d"
      [] ch = "E" -> "e"
      [] ch = "F" -> "f"
      [] ch = "G" -> "g"
      [] ch = "H" -> "h"
      [] ch = "I" -> "i"
      [] ch = "J" -> "j"
      [] ch = "K" -> "k"
      [] ch = "L" -> "l"
      [] ch = "M" -> "m"
      [] ch = "N" -> "n"
      [] ch = "O" -> "o"
      [] ch = "P" -> "p"
      [] ch = "Q" -> "q"
      [] ch = "R" -> "r"
      [] ch = "S" -> "s"
      [] ch = "T" -> "t"
      [] ch = "U" -> "u"
      [] ch = "V" -> "v"
      [] ch = "W" -> "w"
      [] ch = "X" -> "x"
      [] ch = "Y" -> "y"
      [] ch = "Z" -> "z"
      [] OTHER -> ch

ToLowerCase(s) == [i \in 1..Len(s) |-> ToLowerChar(s[i])]

\* String.prototype.includes
Includes(s, w) ==
    \E i \in 0..(Len(s) - Len(w)) :
        \A j \in 1..Len(w) : s[i + j] = w[j]

W_launch == <<"l","a","u","n","c","h">>
W_open == <<"o","p","e","n">>
W_tap == <<"t","a","p">>
W_click == <<"c","l","i","c","k">>
W_type == <<"t","y","p","e">>
W_enter == <<"e","n","t","e","r">>
W_verify == <<"v","e","r","i","f","y">>
W_assert == <<"a","s","s","e","r","t">>
W_wait == <<"w","a","i","t">>
W_scroll == <<"s","c","r","o","l","l">>
W_swipe == <<"s","w","i","p","e">>

\* a rule chain that tests tap|click before launch|open
ActionKindTapFirst(step) ==
    LET lowercaseStep == ToLowerCase(step) IN
    IF Includes(lowercaseStep, W_tap) \/ Includes(lowercaseStep, W_click)
      THEN "tap"
    ELSE IF Includes(lowercaseStep, W_launch) \/ Includes(lowercaseStep, W_open)
      THEN "launch"
    ELSE IF Includes(lowercaseStep, W_type) \/ Includes(lowercaseStep, W_enter)
      THEN "input"
    ELSE IF Includes(lowercaseStep, W_verify) \/ Includes(lowercaseStep, W_assert)
      THEN "verify"
    ELSE IF Includes(lowercaseStep, W_wait) THEN "wait"
    ELSE IF Includes(lowercaseStep, W_scroll) THEN "scroll"
    ELSE IF Includes(lowercaseStep, W_swipe) THEN "swipe"
    ELSE "custom"

\* the action kind BaseEngine.parseTestSteps gives one step
ActionKind(step) ==
    LET lowercaseStep == ToLowerCase(step) IN
    IF Includes(lowercaseStep, W_launch) \/ Includes(lowercaseStep, W_open)
      THEN "launch"
    ELSE IF Includes(lowercaseStep, W_tap) \/ Includes(lowercaseStep, W_click)
      THEN "tap"
    ELSE IF Includes(lowercaseStep, W_type) \/ Includes(lowercaseStep, W_enter)
      THEN "input"
    ELSE IF Includes(lowercaseStep, W_verify) \/ Includes(lowercaseStep, W_assert)
      THEN "verify"
    ELSE IF Includes(lowercaseStep, W_wait) THEN "wait"
    ELSE IF Includes(lowercaseStep, W_scroll) THEN "scroll"
    ELSE IF Includes(lowercaseStep, W_swipe) THEN "swipe"
    ELSE "custom"

\* Math.max / Math.min of a non-empty finite set of integers
MaxOf(S) == CHOOSE x \in S : \A y \in S : y <= x
MinOf(S) == CHOOSE x \in S : \A y \in S : x <= y

\* the regular expression classes \d, [:\s] and [^,\s] on the characters
\* that occur in steps
IsDigit(ch) == ch \in {"0","1","2","3","4","5","6","7","8","9"}
IsSep(ch) == ch \in {":", " "}
IsWord(ch) == ch \notin {",", " "}

\* end of the longest run of characters of a class that starts at a
\* (a - 1 when s[a] is not of the class): a greedy + or *; `at` is the set
\* of positions of s that hold a character of the class
RunEnd(s, a, at) ==
    MaxOf({b \in (a - 1)..Len(s) : \A i \in a..b : i \in at})

\* the positions of step whose character is a digit, a separator, a word
\* character, not a quote
Digits(step) == {i \in 1..Len(step) : IsDigit(step[i])}
Seps(step) == {i \in 1..Len(step) : IsSep(step[i])}
Words(step) == {i \in 1..Len(step) : IsWord(step[i])}
Plains(step) == {i \in 1..Len(step) : step[i] # "\""}

\* step.match(/"([^"]+)"/): the text between the first pair of quotes that
\* has some, <<>> when there is no match
Quoted(step) ==
    LET opens == {i \in 1..Len(step) :
                    /\ step[i] = "\""
                    /\ RunEnd(step, i + 1, Plains(step)) > i
                    /\ RunEnd(step, i + 1, Plains(step)) < Len(step)}
    IN  IF opens = {} THEN <<>>
        ELSE SubSeq(step, MinOf(opens) + 1, RunEnd(step, MinOf(opens) + 1, Plains(step)))

W_button == <<"b","u","t","t","o","n">>
W_field == <<"f","i","e","l","d">>
W_link == <<"l","i","n","k">>
W_element == <<"e","l","e","m","e","n","t">>
W_on == <<"o","n">>

\* the elementPatterns of extractTarget, in their order
ElementWords == <<W_button, W_field, W_link, W_element, W_on>>

StartsAt(s, w, p) ==
    /\ p + Len(w) - 1 <= Len(s)
    /\ \A j \in 1..Len(w) : s[p + j - 1] = w[j]

\* where the group of /word[:\s]+([^,\s]+)/i starts when the word is matched
\* at p: after the longest run of separators that leaves a character for
\* the group (0: no match at p)
CapStart(step, w, p) ==
    LET e == p + Len(w) - 1
        L == RunEnd(step, e + 1, Seps(step)) - e
        ks == {k \in 1..L : e + 1 + k <= Len(step) /\ IsWord(step[e + 1 + k])}
    IN  IF ks = {} THEN 0 ELSE e + 1 + MaxOf(ks)

\* step.match(/word[:\s]+([^,\s]+)/i)[1], <<>> when there is no match
ElementMatch(step, w) ==
    LET ps == {p \in 1..Len(step) :
                 StartsAt(ToLowerCase(step), w, p) /\ CapStart(step, w, p) # 0}
    IN  IF ps = {} THEN <<>>
        ELSE SubSeq(step, CapStart(step, w, MinOf(ps)),
                    RunEnd(step, CapStart(step, w, MinOf(ps)), Words(step)))

\* BaseEngine.extractTarget
extractTarget(step) ==
    LET hits == {n \in 1..Len(ElementWords) : ElementMatch(step, ElementWords[n]) # <<>>}
    IN  IF Quoted(step) # <<>> THEN Quoted(step)
        ELSE IF hits # {} THEN ElementMatch(step, ElementWords[MinOf(hits)])
        ELSE step

W_ms == <<"m","s">>
W_millisecond == <<"m","i","l","l","i","s","e","c","o","n","d">>

DigitValue(ch) ==
    CASE ch = "0" -> 0 [] ch = "1" -> 1 [] ch = "2" -> 2 [] ch = "3" -> 3
      [] ch = "4" -> 4 [] ch = "5" -> 5 [] ch = "6" -> 6 [] ch = "7" -> 7
      [] ch = "8" -> 8 [] ch = "9" -> 9

\* parseInt(digits, 10) of a run of digits
RECURSIVE parseInt(_)
parseInt(ds) ==
    IF ds = <<>> THEN 0
    ELSE 10 * parseInt(SubSeq(ds, 1, Len(ds) - 1)) + DigitValue(ds[Len(ds)])

\* group 1 of step.match(/(\d+)\s*(?:seconds?|secs?|ms|milliseconds?)?/i):
\* the first run of digits, <<>> when the step has no digit
FirstDigits(step) ==
    LET ds == {i \in 1..Len(step) : IsDigit(step[i])}
    IN  IF ds = {} THEN <<>>
        ELSE SubSeq(step, MinOf(ds), RunEnd(step, MinOf(ds), Digits(step)))

\* an extractWaitDuration that always reads the number as seconds
extractWaitSeconds(step) ==
    IF FirstDigits(step) # <<>> THEN parseInt(FirstDigits(step)) * 1000 ELSE 3000

\* BaseEngine.extractWaitDuration
extractWaitDuration(step) ==
    IF FirstDigits(step) # <<>>
      THEN IF \/ Includes(ToLowerCase(step), W_ms)
              \/ Includes(ToLowerCase(step), W_millisecond)
             THEN parseInt(FirstDigits(step))
             ELSE parseInt(FirstDigits(step)) * 1000
      ELSE 3000

W_into == <<"i","n","t","o">>
W_in == <<"i","n">>
W_to == <<"t","o">>

\* the positions of step that hold white space
Blanks(step) == {i \in 1..Len(step) : step[i] = " "}

\* \s+ at p: the position after the run of white space that starts at p,
\* 0 when p is 0 or step[p] is no white space
SkipBlanks(step, p) ==
    IF p = 0 \/ p \notin Blanks(step) THEN 0
    ELSE RunEnd(step, p, Blanks(step)) + 1

\* "([^"]+)" at p: the position after the closing quote, 0 when there is no
\* quoted text at p; the group lies between p + 1 and that position - 2
SkipQuoted(step, p) ==
    LET e == RunEnd(step, p + 1, Plains(step)) IN
    IF p = 0 \/ p > Len(step) THEN 0
    ELSE IF step[p] = "\"" /\ e > p /\ e < Len(step) THEN e + 2
    ELSE 0

\* the first of the words ws (tried in order) that stands at p: its
\* length, 0 when none does
WordAt(step, ws, p) ==
    LET hits == {n \in 1..Len(ws) : p > 0 /\ StartsAt(ToLowerCase(step), ws[n], p)}
    IN  IF hits = {} THEN 0 ELSE Len(ws[MinOf(hits)])

\* /(?:type|enter)\s+"([^"]+)"\s+(?:into|in)\s+"([^"]+)"/i tried at p: the
\* places of its two groups, <<>> when it does not match there
TypeMatchAt(step, p) ==
    LET k == WordAt(step, <<W_type, W_enter>>, p)
        a == IF k = 0 THEN 0 ELSE SkipBlanks(step, p + k)
        b == SkipQuoted(step, a)
        c == SkipBlanks(step, b)
        w == WordAt(step, <<W_into, W_in>>, c)
        d == IF w = 0 THEN 0 ELSE SkipBlanks(step, c + w)
        e == SkipQuoted(step, d)
    IN  IF e = 0 THEN <<>>
        ELSE <<SubSeq(step, d + 1, e - 2), SubSeq(step, a + 1, b - 2)>>

\* a separator of step.split(/(?:into|in|to)\s+/i) at p: the position after
\* it, 0 when there is none at p
SepEnd(step, p) ==
    LET hits == {n \in 1..3 :
                   /\ StartsAt(ToLowerCase(step), <<W_into, W_in, W_to>>[n], p)
                   /\ SkipBlanks(step, p + Len(<<W_into, W_in, W_to>>[n])) # 0}
    IN  IF hits = {} THEN 0
        ELSE SkipBlanks(step, p + Len(<<W_into, W_in, W_to>>[MinOf(hits)]))

\* s.replace(/"/g, '')
Unquote(s) == LET Plain(ch) == ch # "\"" IN SelectSeq(s, Plain)

\* s.replace(/^(?:type|enter)\s+/i, '')
DropVerb(s) ==
    LET k == WordAt(s, <<W_type, W_enter>>, 1)
        a == IF k = 0 THEN 0 ELSE SkipBlanks(s, 1 + k)
    IN  IF a = 0 THEN s ELSE SubSeq(s, a, Len(s))

\* BaseEngine.extractInputValues: <<target, value>>
extractInputValues(step) ==
    LET ms == {p \in 1..Len(step) : TypeMatchAt(step, p) # <<>>}
        seps == {p \in 1..Len(step) : SepEnd(step, p) # 0}
        s1 == MinOf(seps)
        rest == {p \in seps : p >= SepEnd(step, s1)}
    IN  IF ms # {} THEN TypeMatchAt(step, MinOf(ms))
        ELSE IF seps # {}
          THEN <<Unquote(SubSeq(step, SepEnd(step, s1),
                                IF rest = {} THEN Len(step) ELSE MinOf(rest) - 1)),
                 Unquote(DropVerb(SubSeq(step, 1, s1 - 1)))>>
        ELSE <<step, <<>>>>

DigitChars == <<"0","1","2","3","4","5","6","7","8","9">>

\* Number.prototype.toString of a natural number (below 1e21)
RECURSIVE toString(_)
toString(n) ==
    IF n < 10 THEN <<DigitChars[n + 1]>>
    ELSE Append(toString(n \div 10), DigitChars[(n % 10) + 1])

\* the action BaseEngine.parseTestSteps builds for one step: its kind, its
\* target (launch, tap, verify, scroll, swipe: extractTarget; input:
\* extractInputValues; custom: the step), and its value (input:
\* extractInputValues; wait: duration.toString()); <<>> is undefined
ParseStep(step) ==
    LET kind == ActionKind(step) IN
    [action |-> kind,
     step |-> step,
     target |-> IF kind \in {"launch", "tap", "verify", "scroll", "swipe"}
                  THEN extractTarget(step)
                ELSE IF kind = "input" THEN extractInputValues(step)[1]
                ELSE IF kind = "custom" THEN step
                ELSE <<>>,
     value |-> IF kind = "wait" THEN toString(extractWaitDuration(step))
               ELSE IF kind = "input" THEN extractInputValues(step)[2]
               ELSE <<>>]

\* a parseTestSteps that skips blank steps
parseNonBlank(steps) ==
    LET Said(st) == st # <<>>
        kept == SelectSeq(steps, Said)
    IN  [i \in 1..Len(kept) |-> ParseStep(kept[i])]

\* BaseEngine.parseTestSteps: steps.map(...)
parseTestSteps(steps) == [i \in 1..Len(steps) |-> ParseStep(steps[i])]


(***************************************************************************)
(* Flows and strategies the callers pass.                                  *)
(***************************************************************************)
FlowWeb ==
    [name |-> "web login", engine |-> "playwright", steps |-> <<StepTap, StepVerify>>]
FlowMobile ==
    [name |-> "mobile start", engine |-> "appium", steps |-> <<StepTap, StepWait>>]
FlowYaml ==
    [name |-> "yaml smoke", engine |-> "maestro", steps |-> <<StepLaunch>>]
FlowStray ==
    [name |-> "stray", engine |-> "selenium", steps |-> <<StepBack>>]

\* the browser flow of the worked example: open the site, log in, check
FlowExample ==
    [name |-> "example", engine |-> "playwright",
     steps |-> <<StepGoto, StepTap, StepVerify>>]

FlowSet == {FlowWeb, FlowMobile, FlowYaml, FlowStray, FlowExample}

Strategies == UNION {[1..n -> FlowSet] : n \in 0..MaxFlows}

(***************************************************************************)
(* State.                                                                  *)
(***************************************************************************)
VARIABLES
    \* ---- adapters (BaseEngine / AppiumEngine / PlaywrightEngine fields)
    isInitialized,      \* [Engines -> BOOLEAN]   BaseEngine.isInitialized
    config,             \* [Engines -> Configs]   BaseEngine.config
    driver,             \* AppiumEngine.driver (NoHandle = undefined)
    browsers,           \* PlaywrightEngine.browsers: name -> handle
    \* ---- the backends
    live,               \* sessions / browsers created and not yet handed to a
                        \* deleteSession() / close() that has come back
    screenshotOnFailure,\* config.testing.screenshotOnFailure
    flowFiles,          \* the generated flow documents that lie in
                        \* temp/maestro-flows, each named by the call and
                        \* the flow (1-based) it was written for
    reportDir,          \* the latest directory under ~/.maestro/tests: the
                        \* call whose runner made it, and whether it has a png
    \* ---- one executeTestStrategy call each
    pc,                 \* where the call is
    strategy,           \* its strategy.testFlows
    cfg,                \* its config argument
    idx,                \* flows of the for loop already left behind
    results,            \* const results: TestResult[]
    artifacts,          \* artifacts.screenshots
    ret,                \* the value handed to `return` (before finally runs)
    outcome,            \* how the returned promise settled
    initSt,             \* the three initialize() promises of the call
    cleanupSt,          \* the three cleanup() promises of the call
    cleanupH,           \* the handle each pending cleanup() is releasing
    cleanupCalls,       \* cleanup() invocations made by the call
    fl,                 \* locals of the executeTestFlow the call awaits
    hist,               \* what happened in the flow behind each entry of
                        \* results (kept for the properties only)
    \* ---- a call of one of the functions that touch none of the above
    probe,              \* its argument and, once it returned, its value
    \* ---- the process and the QAOrchestrator
    env,                \* process.env when the process starts
    proc,               \* where main() of index.ts is
    testSessions,       \* QAOrchestrator.testSessions: id -> session
    nextId,             \* the next id `${Date.now()}_${Math.random()}` gives
    inflight,           \* id -> the operation that made it and still awaits
    analysing,          \* analyzeResults calls that still await
    answer              \* how the last operation settled

adapterVars == <<isInitialized, config, driver, browsers>>
orchVars == <<env, proc, testSessions, nextId, inflight, analysing, answer>>
\* what no step of executeTestStrategy writes
asideVars == <<screenshotOnFailure, probe, orchVars>>
\* the files the maestro adapter works with
fsVars == <<flowFiles, reportDir>>
worldVars == <<live, asideVars, fsVars>>
loopVars == <<strategy, cfg, idx, results, artifacts, ret, outcome>>
promiseVars == <<initSt, cleanupSt, cleanupH, cleanupCalls>>
vars == <<adapterVars, worldVars, pc, loopVars, promiseVars, fl, hist>>

NoError == [kind |-> "none", step |-> 0]
NoRet == [set |-> FALSE, results |-> <<>>, screenshots |-> <<>>,
          total |-> 0, passed |-> 0, failed |-> 0, skipped |-> 0, errors |-> 0]
NoFlow == [engine |-> "none", name |-> "none", actions |-> <<>>, i |-> 0,
           status |-> "passed", error |-> NoError, screenshots |-> <<>>,
           tried |-> <<>>, raised |-> <<>>, broke |-> FALSE, handle |-> NoHandle,
           attempts |-> <<>>]

NoReport == [run |-> 0, png |-> FALSE]
NoProbe == [fn |-> "none", arg |-> <<>>, returned |-> FALSE, value |-> <<>>]

\* the manager and its adapters after construction, no call made yet
Fresh ==
    /\ isInitialized = [e \in Engines |-> FALSE]
    /\ config = [e \in Engines |-> "undefined"]
    /\ driver = NoHandle
    /\ browsers = [b \in BrowserNames |-> NoHandle]
    /\ live = {}
    /\ screenshotOnFailure \in BOOLEAN
    /\ flowFiles = {}
    /\ reportDir = NoReport
    /\ pc = [c \in Calls |-> "idle"]
    /\ strategy = [c \in Calls |-> <<>>]
    /\ cfg = [c \in Calls |-> "undefined"]
    /\ idx = [c \in Calls |-> 0]
    /\ results = [c \in Calls |-> <<>>]
    /\ artifacts = [c \in Calls |-> <<>>]
    /\ ret = [c \in Calls |-> NoRet]
    /\ outcome = [c \in Calls |-> "none"]
    /\ initSt = [c \in Calls |-> [e \in Engines |-> "none"]]
    /\ cleanupSt = [c \in Calls |-> [e \in Engines |-> "none"]]
    /\ cleanupH = [c \in Calls |-> [e \in Engines |-> NoHandle]]
    /\ cleanupCalls = [c \in Calls |-> [e \in Engines |-> 0]]
    /\ fl = [c \in Calls |-> NoFlow]
    /\ hist = [c \in Calls |-> <<>>]

\* bounds: ids the orchestrator hands out, analyzeResults calls in flight
MaxSessions == 3
MaxAnalyses == 1
SessionIds == 1..MaxSessions

\* a session holds its status and the dates it was stored with: createdAt
\* (analyzeContext, generateTestStrategy) or startTime (executeTests), each
\* "recent" or, more than 24 h later, "old"
NoSession == [status |-> "absent", createdAt |-> "undefined", startTime |-> "undefined"]
NoAnswer == [op |-> "none", settled |-> "none", ai |-> "none",
             activeTests |-> 0, queuedTests |-> 0, completedTests |-> 0,
             session |-> NoSession]
\* process.env: the variables main and loadConfig may look at, unset
NoEnv == [ANTHROPIC_API_KEY |-> "undefined"]

\* a QAOrchestrator after construction, main() not yet called
FreshOrchestrator ==
    /\ proc = "boot"
    /\ testSessions = [i \in SessionIds |-> NoSession]
    /\ nextId = 1
    /\ inflight = [i \in SessionIds |-> "none"]
    /\ analysing = 0
    /\ answer = NoAnswer

Init == Fresh /\ probe = NoProbe /\ FreshOrchestrator /\ env = NoEnv

(***************************************************************************)
(* The three adapters' initialize().                                       *)
(***************************************************************************)
\* an initialize() without the isInitialized guard
initializeAgain(e) == "pending"

\* the synchronous head of initialize(): `if (this.isInitialized) return;`
\* gives the state of the promise the call returns
initializeHead(e) == IF isInitialized[e] THEN "ok" ELSE "pending"

\* TestEngineManager.initializeEngines: the three initialize() calls are
\* made one after the other before Promise.all awaits them
initializeEngines(c) ==
    initSt' = [initSt EXCEPT ![c] = [e \in Engines |-> initializeHead(e)]]

\* executeTestStrategy is entered: locals are set up, initializeEngines runs
\* up to its await
StartCall(c, s, k) ==
    /\ pc[c] = "idle"
    /\ pc' = [pc EXCEPT ![c] = "init"]
    /\ strategy' = [strategy EXCEPT ![c] = s]
    /\ cfg' = [cfg EXCEPT ![c] = k]
    /\ initializeEngines(c)
    /\ UNCHANGED <<adapterVars, worldVars, idx, results, artifacts, ret, outcome,
                   cleanupSt, cleanupH, cleanupCalls, fl, hist>>

\* the backend call an initialize() awaits resolves (remote(options),
\* chromium.launch, `maestro --version` + mkdir): the adapter records its
\* handle, the config and isInitialized = true
InitResolve(c, e) ==
    /\ initSt[c][e] = "pending"
    /\ initSt' = [initSt EXCEPT ![c][e] = "ok"]
    /\ config' = [config EXCEPT ![e] = cfg[c]]
    /\ isInitialized' = [isInitialized EXCEPT ![e] = TRUE]
    /\ IF e = "appium"
         THEN /\ driver' = Handle(c, e)
              /\ live' = live \cup {Handle(c, e)}
              /\ UNCHANGED browsers
       ELSE IF e = "playwright" /\ BrowsersToLaunch(cfg[c]) # {}
         THEN /\ browsers' = [b \in BrowserNames |->
                                IF b \in BrowsersToLaunch(cfg[c])
                                  THEN Handle(c, e) ELSE browsers[b]]
              /\ live' = live \cup {Handle(c, e)}
              /\ UNCHANGED driver
       ELSE UNCHANGED <<driver, browsers, live>>
    /\ UNCHANGED <<asideVars, fsVars, pc, loopVars, cleanupSt, cleanupH,
                   cleanupCalls, fl, hist>>

\* the backend call an initialize() awaits rejects: initialize() throws
\* "... initialization failed" and leaves the adapter as it was
InitReject(c, e) ==
    /\ initSt[c][e] = "pending"
    /\ initSt' = [initSt EXCEPT ![c][e] = "failed"]
    /\ UNCHANGED <<adapterVars, worldVars, pc, loopVars, cleanupSt, cleanupH,
                   cleanupCalls, fl, hist>>


(***************************************************************************)
(* The three adapters' cleanup().                                          *)
(***************************************************************************)
\* handle of the first entry of this.browsers (NoHandle when the map is empty)
FirstBrowser ==
    IF \A b \in BrowserNames : browsers[b] = NoHandle THEN NoHandle
    ELSE browsers[CHOOSE b \in BrowserNames : browsers[b] # NoHandle]

\* the synchronous head of each cleanup(): appium without a driver and
\* playwright without a browser run to their end at once; the others stop at
\* their first await (deleteSession, readdir, browser.close)
cleanupHead(e) ==
    IF e = "appium" THEN (IF driver # NoHandle THEN "pending" ELSE "ok")
    ELSE IF e = "playwright" THEN (IF FirstBrowser # NoHandle THEN "pending" ELSE "ok")
    ELSE "pending"

\* TestEngineManager.cleanupEngines up to its await: cleanup() is called on
\* the three adapters, each promise with its own .catch
cleanupEngines(c) ==
    /\ cleanupSt' = [cleanupSt EXCEPT ![c] = [e \in Engines |-> cleanupHead(e)]]
    /\ cleanupH' = [cleanupH EXCEPT ![c] =
                      [e \in Engines |->
                         IF e = "appium" THEN driver
                         ELSE IF e = "playwright" THEN FirstBrowser
                         ELSE NoHandle]]
    /\ cleanupCalls' = [cleanupCalls EXCEPT ![c] =
                          [e \in Engines |-> cleanupCalls[c][e] + 1]]
    /\ isInitialized' = [e \in Engines |->
                           IF cleanupHead(e) = "ok" THEN FALSE ELSE isInitialized[e]]

\* a finally block that lets a failed cleanup() replace the outcome
SettledAsCleanup(r, cst) ==
    IF r.set /\ \A e \in Engines : cst[e] # "failed" THEN "resolved" ELSE "rejected"

\* how the promise of executeTestStrategy settles once cleanupEngines is
\* through: with the value of `return`, or with the error the catch rethrew
SettledAs(r, cst) == IF r.set THEN "resolved" ELSE "rejected"

\* when the last of the three cleanup() promises (now cst) has settled,
\* Promise.all resolves, cleanupEngines returns and the call settles, all in
\* the same turn of the event loop
SettleWith(c, cst) ==
    IF \A e \in Engines : cst[e] \in {"ok", "failed"}
      THEN /\ pc' = [pc EXCEPT ![c] = "done"]
           /\ outcome' = [outcome EXCEPT ![c] = SettledAs(ret[c], cst)]
      ELSE UNCHANGED <<pc, outcome>>

\* the backend call a cleanup() awaits comes back and cleanup() runs to its
\* end: appium forgets the driver, playwright clears its browsers (a
\* failed browser.close() is swallowed), maestro has removed its files;
\* each sets isInitialized = false
CleanupResolve(c, e) ==
    /\ cleanupSt[c][e] = "pending"
    /\ cleanupSt' = [cleanupSt EXCEPT ![c][e] = "ok"]
    /\ isInitialized' = [isInitialized EXCEPT ![e] = FALSE]
    /\ IF e = "appium"
         THEN /\ driver' = NoHandle
              /\ live' = live \ {cleanupH[c][e]}
              /\ UNCHANGED browsers
       ELSE IF e = "playwright"
         THEN /\ browsers' = [b \in BrowserNames |-> NoHandle]
              /\ live' = live \ {cleanupH[c][e]}
              /\ UNCHANGED driver
       ELSE UNCHANGED <<driver, browsers, live>>
    /\ IF e = "maestro"
         THEN \* readdir and each unlink may fail and are passed over
              \E kept \in SUBSET flowFiles : flowFiles' = kept
         ELSE UNCHANGED flowFiles
    /\ SettleWith(c, [cleanupSt[c] EXCEPT ![e] = "ok"])
    /\ UNCHANGED <<config, asideVars, reportDir, strategy, cfg, idx, results,
                   artifacts, ret, initSt, cleanupH, cleanupCalls, fl, hist>>

\* driver.deleteSession() rejects: AppiumEngine.cleanup rethrows before it
\* resets anything
CleanupReject(c, e) ==
    /\ e = "appium"
    /\ cleanupSt[c][e] = "pending"
    /\ cleanupSt' = [cleanupSt EXCEPT ![c][e] = "failed"]
    /\ SettleWith(c, [cleanupSt[c] EXCEPT ![e] = "failed"])
    /\ UNCHANGED <<adapterVars, worldVars, strategy, cfg, idx, results, artifacts,
                   ret, initSt, cleanupH, cleanupCalls, fl, hist>>

(***************************************************************************)
(* TestEngineManager.executeTestStrategy around the flow loop.             *)
(***************************************************************************)
\* an initializeEngines that waits for the three promises to settle and
\* goes on whatever they settled to
InitSettled(c) ==
    /\ pc[c] = "init"
    /\ \A e \in Engines : initSt[c][e] \in {"ok", "failed"}
    /\ pc' = [pc EXCEPT ![c] = "loop"]
    /\ UNCHANGED <<adapterVars, worldVars, loopVars, promiseVars, fl, hist>>

\* Promise.all of the three initialize() promises resolved
InitDone(c) ==
    /\ pc[c] = "init"
    /\ \A e \in Engines : initSt[c][e] = "ok"
    /\ pc' = [pc EXCEPT ![c] = "loop"]
    /\ UNCHANGED <<adapterVars, worldVars, loopVars, promiseVars, fl, hist>>

\* an executeTestStrategy whose cleanup sits at the end of the try block
\* instead of in finally
InitFailedNoFinally(c) ==
    /\ pc[c] = "init"
    /\ \E e \in Engines : initSt[c][e] = "failed"
    /\ pc' = [pc EXCEPT ![c] = "done"]
    /\ outcome' = [outcome EXCEPT ![c] = "rejected"]
    /\ UNCHANGED <<adapterVars, worldVars, strategy, cfg, idx, results, artifacts,
                   ret, promiseVars, fl, hist>>

\* Promise.all rejected with the first rejection: initializeEngines throws,
\* the outer catch rethrows "Test execution failed", finally runs
\* cleanupEngines
InitFailed(c) ==
    /\ pc[c] = "init"
    /\ \E e \in Engines : initSt[c][e] = "failed"
    /\ pc' = [pc EXCEPT ![c] = "cleanup"]
    /\ cleanupEngines(c)
    /\ UNCHANGED <<config, driver, browsers, worldVars, loopVars, initSt, fl, hist>>

\* QAOrchestrator.executeTests took the settled promise: the frame of the
\* call is gone; initialize() promises nobody awaits any more stay pending
Forget(c) ==
    /\ pc[c] = "done"
    /\ pc' = [pc EXCEPT ![c] = "gone"]
    /\ strategy' = [strategy EXCEPT ![c] = <<>>]
    /\ idx' = [idx EXCEPT ![c] = 0]
    /\ results' = [results EXCEPT ![c] = <<>>]
    /\ artifacts' = [artifacts EXCEPT ![c] = <<>>]
    /\ hist' = [hist EXCEPT ![c] = <<>>]
    /\ ret' = [ret EXCEPT ![c] = NoRet]
    /\ outcome' = [outcome EXCEPT ![c] = "none"]
    /\ initSt' = [initSt EXCEPT ![c] =
                    [e \in Engines |->
                       IF initSt[c][e] = "pending" THEN "pending" ELSE "none"]]
    /\ cleanupSt' = [cleanupSt EXCEPT ![c] = [e \in Engines |-> "none"]]
    /\ cleanupH' = [cleanupH EXCEPT ![c] = [e \in Engines |-> NoHandle]]
    /\ cleanupCalls' = [cleanupCalls EXCEPT ![c] = [e \in Engines |-> 0]]
    /\ cfg' = [cfg EXCEPT ![c] =
                 IF \E e \in Engines : initSt[c][e] = "pending" THEN @ ELSE "undefined"]
    /\ UNCHANGED <<adapterVars, worldVars, fl>>


(***************************************************************************)
(* executeTestFlow of the adapters, and the flow loop that awaits it.      *)
(***************************************************************************)
\* BaseEngine.createTestResult
createTestResult(testName, engine, status, error, screenshots) ==
    [testName |-> testName, engine |-> engine, status |-> status, error |-> error,
     screenshots |-> screenshots]

\* the error result the catch of the flow loop builds
errorResult(flow) ==
    [testName |-> flow.name, engine |-> flow.engine, status |-> "error",
     error |-> [kind |-> "unknownEngine", step |-> 0],
     screenshots |-> <<>>]

\* a flow loop that puts the screenshots of a result before the ones it has
RecordNewestFirst(c, result) ==
    /\ results' = [results EXCEPT ![c] = Append(@, result)]
    /\ artifacts' = [artifacts EXCEPT ![c] = result.screenshots \o @]

\* a flow loop that keeps only the results of flows that ran to a verdict
RecordVerdicts(c, result) ==
    /\ results' = [results EXCEPT ![c] =
                      IF result.status = "error" THEN @ ELSE Append(@, result)]
    /\ artifacts' = [artifacts EXCEPT ![c] = @ \o result.screenshots]

\* results.push(result) and the artifact collection that follows it
Record(c, result) ==
    /\ results' = [results EXCEPT ![c] = Append(@, result)]
    /\ artifacts' = [artifacts EXCEPT ![c] = @ \o result.screenshots]

\* what a flow went through: the adapter that ran it, its number of
\* actions, the actions attempted and those that threw (0-based, in order),
\* and whether something threw outside the try around executeAction
Went(adapter, n, tried, raised, outer) ==
    [adapter |-> adapter, n |-> n, tried |-> tried, raised |-> raised, outer |-> outer]

Note(c, h) == hist' = [hist EXCEPT ![c] = Append(@, h)]

\* the result of an adapter's executeTestFlow whose outer try threw
FlowError(flow, adapter, kind, shots) ==
    createTestResult(flow.name, adapter, "error", [kind |-> kind, step |-> 0], shots)

\* a getEngine that falls back to the browser adapter
getEngineOrBrowser(engineName) ==
    IF engineName \in Engines THEN engineName ELSE "playwright"

\* TestEngineManager.getEngine: the adapter for an engine tag, "none" when
\* it throws `Unknown engine`
getEngine(engineName) ==
    IF engineName \in Engines THEN engineName ELSE "none"

\* an executeTestFlow that does not look at isInitialized
EarlyErrorUnguarded(e) ==
    IF e = "appium" /\ driver = NoHandle THEN "notInitialized"
    ELSE IF e = "playwright" /\ FirstBrowser = NoHandle THEN "noBrowsers"
    ELSE "none"

\* what stops an executeTestFlow before its action loop: the engine is not
\* initialized (appium: or has no driver), playwright has no browser
EarlyError(e) ==
    IF e = "appium" /\ (~isInitialized[e] \/ driver = NoHandle) THEN "notInitialized"
    ELSE IF e # "appium" /\ ~isInitialized[e] THEN "notInitialized"
    ELSE IF e = "playwright" /\ FirstBrowser = NoHandle THEN "noBrowsers"
    ELSE "none"

\* one turn of `for (const flow of strategy.testFlows)` up to the first await
\* that can take time: getEngine, then the head of executeTestFlow
\* (playwright: browser.newContext / newPage; maestro: writeFlowFile)
DispatchFlow(c) ==
    /\ pc[c] = "loop"
    /\ idx[c] < Len(strategy[c])
    /\ LET flow == strategy[c][idx[c] + 1]
           a == getEngine(flow.engine)
       IN
       IF a = "none"
         THEN \* getEngine throws: error result, no delay
              /\ results' = [results EXCEPT ![c] = Append(@, errorResult(flow))]
              /\ Note(c, Went("none", 0, <<>>, <<>>, FALSE))
              /\ idx' = [idx EXCEPT ![c] = @ + 1]
              /\ UNCHANGED <<pc, artifacts, fl, flowFiles>>
       ELSE IF EarlyError(a) # "none"
         THEN /\ Record(c, FlowError(flow, a, EarlyError(a), <<>>))
              /\ Note(c, Went(a, Len(flow.steps), <<>>, <<>>, TRUE))
              /\ pc' = [pc EXCEPT ![c] = "delay"]
              /\ UNCHANGED <<idx, fl, flowFiles>>
       ELSE \E opened \in BOOLEAN :
              IF ~opened /\ a # "appium"
                THEN /\ Record(c, FlowError(flow, a, "setupFailed", <<>>))
                     /\ Note(c, Went(a, Len(flow.steps), <<>>, <<>>, TRUE))
                     /\ pc' = [pc EXCEPT ![c] = "delay"]
                     /\ UNCHANGED <<idx, fl, flowFiles>>
              ELSE /\ fl' = [fl EXCEPT ![c] =
                               [NoFlow EXCEPT
                                  !.engine = a,
                                  !.name = flow.name,
                                  !.actions = parseTestSteps(flow.steps),
                                  !.handle = IF a = "playwright"
                                               THEN FirstBrowser ELSE NoHandle]]
                   /\ flowFiles' = IF a = "maestro"
                                     THEN flowFiles \cup {[run |-> c, flow |-> idx[c] + 1]}
                                     ELSE flowFiles
                   /\ pc' = [pc EXCEPT ![c] = "flow"]
                   /\ UNCHANGED <<idx, results, artifacts, hist>>
    /\ UNCHANGED <<adapterVars, live, asideVars, reportDir, strategy, cfg, ret,
                   outcome, promiseVars>>

\* the backend object the actions of a running flow act on is there
BackendUp(c) ==
    IF fl[c].engine = "appium" THEN driver # NoHandle ELSE fl[c].handle \in live

\* executeAction can throw for this kind (a wait is a plain delay; appium
\* only logs a custom action)
CanRaise(e, kind) == kind # "wait" /\ ~(e = "appium" /\ kind = "custom")

W_http == <<"h","t","t","p">>

\* page.goto(url) can load the url: it names a scheme and has no blank
\* (anything else is rejected as an invalid URL)
Navigable(url) ==
    /\ StartsAt(ToLowerCase(url), W_http, 1)
    /\ \A i \in 1..Len(url) : url[i] # " "

\* executeAction throws whatever the backend does: playwright's launch with
\* a target page.goto cannot take
MustRaise(e, action) ==
    e = "playwright" /\ action.action = "launch" /\ ~Navigable(action.target)

\* an action loop without the `break`
KeepsGoing == FALSE

\* a loop that takes the step screenshot after an action of any kind
AnyAction ==
    {"launch", "tap", "input", "verify", "wait", "scroll", "swipe", "custom"}

\* ['tap', 'input', 'verify']: the kinds a step screenshot follows
CriticalActions == {"tap", "input", "verify"}

\* takeScreenshot(name, i, type) gets as far as the capture: always for the
\* type 'failure', else only with config.testing.screenshotOnFailure
Captures(type) == screenshotOnFailure \/ type = "failure"

\* a screenshot that was saved, and a capture that was made (saved or not)
Shot(c, type, i) == [tag |-> type, idx |-> i, from |-> c]
Attempt(type, i) == [tag |-> type, idx |-> i]

\* the catch of the action loop ends with `break`
StopsAtFailure == TRUE

\* one turn of the action loop of AppiumEngine / PlaywrightEngine
\* .executeTestFlow: executeAction, the step screenshot after tap, input and
\* verify, or on a throw the error, status 'failed', the failure screenshot
\* and break
ActionStep(c) ==
    /\ pc[c] = "flow"
    /\ fl[c].engine \in {"appium", "playwright"}
    /\ ~fl[c].broke
    /\ fl[c].i < Len(fl[c].actions)
    /\ LET f == fl[c]
           kind == f.actions[f.i + 1].action
       IN \E raised \in BOOLEAN, shot \in BOOLEAN :
            /\ raised => CanRaise(f.engine, kind)
            /\ MustRaise(f.engine, f.actions[f.i + 1]) => raised
            /\ (CanRaise(f.engine, kind) /\ ~BackendUp(c)) => raised
            /\ shot => BackendUp(c)
            /\ fl' = [fl EXCEPT ![c] =
                 IF ~raised
                   THEN [f EXCEPT
                           !.tried = Append(@, f.i),
                           !.attempts =
                              IF kind \in CriticalActions /\ Captures("step")
                                THEN Append(@, Attempt("step", f.i))
                                ELSE @,
                           !.screenshots =
                              IF kind \in CriticalActions /\ Captures("step") /\ shot
                                THEN Append(@, Shot(c, "step", f.i))
                                ELSE @,
                           !.i = @ + 1]
                   ELSE [f EXCEPT
                           !.tried = Append(@, f.i),
                           !.raised = Append(@, f.i),
                           !.error = [kind |-> "step", step |-> f.i + 1],
                           !.status = "failed",
                           !.attempts =
                              IF Captures("failure")
                                THEN Append(@, Attempt("failure", f.i))
                                ELSE @,
                           !.screenshots =
                              IF Captures("failure") /\ shot
                                THEN Append(@, Shot(c, "failure", f.i))
                                ELSE @,
                           !.broke = StopsAtFailure,
                           !.i = IF StopsAtFailure THEN @ ELSE @ + 1]]
    /\ UNCHANGED <<adapterVars, worldVars, pc, loopVars, promiseVars, hist>>

\* the result AppiumEngine / PlaywrightEngine.executeTestFlow returns after
\* its action loop; playwright's context.close() is awaited inside the outer
\* try, so its rejection reaches the outer catch
FlowResult(f, closed) ==
    IF f.engine = "playwright" /\ ~closed
      THEN createTestResult(f.name, f.engine, "error",
                            [kind |-> "closeFailed", step |-> 0], f.screenshots)
      ELSE createTestResult(f.name, f.engine, f.status, f.error, f.screenshots)

\* the action loop is over: (playwright) context.close, createTestResult;
\* the flow loop records the result
FinishFlow(c) ==
    /\ pc[c] = "flow"
    /\ fl[c].engine \in {"appium", "playwright"}
    /\ fl[c].broke \/ fl[c].i = Len(fl[c].actions)
    /\ \E closed \in BOOLEAN :
         /\ (fl[c].engine = "appium") => closed
         /\ Record(c, FlowResult(fl[c], closed))
         /\ Note(c, Went(fl[c].engine, Len(fl[c].actions), fl[c].tried,
                         fl[c].raised, ~closed))
    /\ pc' = [pc EXCEPT ![c] = "delay"]
    /\ fl' = [fl EXCEPT ![c] = NoFlow]
    /\ UNCHANGED <<adapterVars, worldVars, strategy, cfg, idx, ret, outcome,
                   promiseVars>>

\* MaestroEngine.collectScreenshots: the screenshot the runner's output
\* names, else (screenshotOnFailure) the png of the latest directory under
\* ~/.maestro/tests, each if its copy succeeds; `from` is the call whose
\* runner made the image
collectScreenshots(c, printed, copied, latest) ==
    IF printed
      THEN (IF copied THEN <<[tag |-> "maestro", idx |-> 0, from |-> c]>> ELSE <<>>)
    ELSE IF screenshotOnFailure /\ latest.png /\ copied
      THEN <<[tag |-> "maestro", idx |-> 0, from |-> latest.run]>>
    ELSE <<>>

\* MaestroEngine.executeTestFlow after executeMaestroFlow came back with an
\* exit code: status, collectScreenshots, createTestResult. The runner may
\* have named a screenshot in its output, and may have left a new directory
\* under ~/.maestro/tests, with or without a png
RunnerExit(c) ==
    /\ pc[c] = "flow"
    /\ fl[c].engine = "maestro"
    /\ \E exitCode \in {0, 1}, printed \in BOOLEAN, copied \in BOOLEAN,
          left \in {"nothing", "empty", "png"} :
         LET latest == IF left = "nothing" THEN reportDir
                       ELSE [run |-> c, png |-> left = "png"]
         IN  /\ reportDir' = latest
             /\ Record(c, createTestResult(
                     fl[c].name, "maestro",
                     IF exitCode # 0 THEN "failed" ELSE "passed",
                     IF exitCode # 0 THEN [kind |-> "runner", step |-> 0] ELSE NoError,
                     collectScreenshots(c, printed, copied, latest)))
    /\ Note(c, Went("maestro", Len(fl[c].actions), <<>>, <<>>, FALSE))
    /\ pc' = [pc EXCEPT ![c] = "delay"]
    /\ fl' = [fl EXCEPT ![c] = NoFlow]
    /\ UNCHANGED <<adapterVars, live, asideVars, flowFiles, strategy, cfg, idx, ret,
                   outcome, promiseVars>>

\* `await this.delay(1000)` is over: next turn of the flow loop
Delay(c) ==
    /\ pc[c] = "delay"
    /\ pc' = [pc EXCEPT ![c] = "loop"]
    /\ idx' = [idx EXCEPT ![c] = @ + 1]
    /\ UNCHANGED <<adapterVars, worldVars, strategy, cfg, results, artifacts, ret,
                   outcome, promiseVars, fl, hist>>

\* a summary that counts a result in error among the failed ones as well
SuiteResultLoose(rs, shots) ==
    [set |-> TRUE, results |-> rs, screenshots |-> shots,
     total |-> Len(rs),
     passed |-> Cardinality({i \in DOMAIN rs : rs[i].status = "passed"}),
     failed |-> Cardinality({i \in DOMAIN rs : rs[i].status \in {"failed", "error"}}),
     skipped |-> Cardinality({i \in DOMAIN rs : rs[i].status = "skipped"}),
     errors |-> Cardinality({i \in DOMAIN rs : rs[i].status = "error"})]

CountStatus(rs, st) == Cardinality({i \in DOMAIN rs : rs[i].status = st})

\* the TestSuiteResult built after the loop
SuiteResult(rs, shots) ==
    [set |-> TRUE, results |-> rs, screenshots |-> shots,
     total |-> Len(rs),
     passed |-> CountStatus(rs, "passed"),
     failed |-> CountStatus(rs, "failed"),
     skipped |-> CountStatus(rs, "skipped"),
     errors |-> CountStatus(rs, "error")]

\* a flow loop that can return before its last turn
LoopEndEarly(c) ==
    /\ pc[c] = "loop"
    /\ idx[c] <= Len(strategy[c])
    /\ ret' = [ret EXCEPT ![c] = SuiteResult(results[c], artifacts[c])]
    /\ pc' = [pc EXCEPT ![c] = "cleanup"]
    /\ cleanupEngines(c)
    /\ UNCHANGED <<config, driver, browsers, worldVars, strategy, cfg, idx, results,
                   artifacts, outcome, initSt, fl, hist>>

\* the flow loop is through: summary, `return testSuiteResult`, and the
\* finally block starts cleanupEngines
LoopEnd(c) ==
    /\ pc[c] = "loop"
    /\ idx[c] = Len(strategy[c])
    /\ ret' = [ret EXCEPT ![c] = SuiteResult(results[c], artifacts[c])]
    /\ pc' = [pc EXCEPT ![c] = "cleanup"]
    /\ cleanupEngines(c)
    /\ UNCHANGED <<config, driver, browsers, worldVars, strategy, cfg, idx, results,
                   artifacts, outcome, initSt, fl, hist>>

(***************************************************************************)
(* Specifications.                                                         *)
(***************************************************************************)
\* Spec: one executeTestStrategy call on a fresh manager, any strategy
Enter(c) ==
    /\ c = 1
    /\ \E s \in Strategies, k \in Configs : StartCall(c, s, k)

Step(c) ==
    \/ \E e \in Engines : InitResolve(c, e)
    \/ \E e \in Engines : InitReject(c, e)
    \/ InitDone(c)
    \/ InitFailed(c)
    \/ DispatchFlow(c)
    \/ ActionStep(c)
    \/ FinishFlow(c)
    \/ RunnerExit(c)
    \/ Delay(c)
    \/ LoopEnd(c)
    \/ \E e \in Engines : CleanupResolve(c, e)
    \/ \E e \in Engines : CleanupReject(c, e)
    \/ Forget(c)

Next == \E c \in Calls : Enter(c) \/ Step(c)

Spec == Init /\ [][Next]_vars

\* SpecRuns: the calls QAOrchestrator.executeTests makes on its one manager,
\* one per execute_tests request, each request sent after the answer to the
\* one before. Calls are numbered in the order they arrive.
Shorten(f) ==
    [f EXCEPT !.steps = SubSeq(@, 1, IF Len(@) < MaxSharedSteps THEN Len(@)
                                                               ELSE MaxSharedSteps)]

ShortStrategies ==
    {[i \in DOMAIN s |-> Shorten(s[i])] : s \in {t \in Strategies : Len(t) <= MaxSharedFlows}}

EnterNext(c) ==
    /\ \A d \in Calls : d < c => pc[d] = "gone"
    /\ \E s \in ShortStrategies, k \in Configs : StartCall(c, s, k)

NextRuns == \E c \in Calls : EnterNext(c) \/ Step(c)

SpecRuns == Init /\ [][NextRuns]_vars

\* SpecTwice: the same strategy, a maestro flow followed by a browser flow,
\* is run twice without a config, the second run after the first is over
EnterTwice(c) ==
    /\ \A d \in Calls : d < c => pc[d] = "gone"
    /\ StartCall(c, <<FlowYaml, Shorten(FlowWeb)>>, "undefined")

NextTwice == \E c \in Calls : EnterTwice(c) \/ Step(c)

SpecTwice == Init /\ [][NextTwice]_vars

\* SpecShared: a request may also arrive while earlier ones are still
\* running. The requests carry the web login or the mobile start flow and no
\* config; the backend calls of initialize() and cleanup() all succeed.
OverlapStrategies ==
    {s \in ShortStrategies : \A i \in DOMAIN s : s[i].name \in {FlowWeb.name, FlowMobile.name}}

EnterShared(c) ==
    /\ \A d \in Calls : d < c => pc[d] # "idle"
    /\ \E s \in OverlapStrategies : StartCall(c, s, "undefined")

StepShared(c) ==
    \/ \E e \in Engines : InitResolve(c, e)
    \/ InitDone(c)
    \/ DispatchFlow(c)
    \/ ActionStep(c)
    \/ FinishFlow(c)
    \/ Delay(c)
    \/ LoopEnd(c)
    \/ \E e \in Engines : CleanupResolve(c, e)
    \/ Forget(c)

NextShared == \E c \in Calls : EnterShared(c) \/ StepShared(c)

SpecShared == Init /\ [][NextShared]_vars

\* SpecBeside: one request with a single flow, for any engine tag, and
\* beside it on the same manager a request without flows, which only
\* initializes the adapters and cleans them up again; neither carries a
\* config, and the backend calls of initialize() and cleanup() succeed.
EnterBeside(c) ==
    IF c = 1
      THEN \E f \in FlowSet : StartCall(c, <<Shorten(f)>>, "undefined")
      ELSE pc[1] # "idle" /\ StartCall(c, <<>>, "undefined")

StepBeside(c) ==
    \/ \E e \in Engines : InitResolve(c, e)
    \/ InitDone(c)
    \/ DispatchFlow(c)
    \/ ActionStep(c)
    \/ FinishFlow(c)
    \/ RunnerExit(c)
    \/ Delay(c)
    \/ LoopEnd(c)
    \/ \E e \in Engines : CleanupResolve(c, e)
    \/ Forget(c)

NextBeside == \E c \in Calls : EnterBeside(c) \/ StepBeside(c)

SpecBeside == Init /\ [][NextBeside]_vars

(***************************************************************************)
(* Functions that read nothing of the manager's state: parseTestSteps,     *)
(* extractWaitDuration, calculateCoverage, AppiumEngine.getHealthStatus.   *)
(***************************************************************************)
\* steps per parseTestSteps call
MaxProbeSteps == 2
\* results per calculateCoverage call
MaxProbeResults == 2

\* more step strings callers write
StepEmpty == <<>>
StepWaitMs == <<"w","a","i","t"," ","5","0","0"," ","m","s">>
StepWaitBare == <<"w","a","i","t">>
StepWaitItems == <<"W","a","i","t"," ","2"," ","s","e","c","o","n","d","s"," ","f","o","r"," ","i","t","e","m","s">>
StepOpenTap == <<"o","p","e","n"," ","m","e","n","u"," ","a","n","d"," ","t","a","p"," ","o","n"," ","S","a","v","e">>
StepAssertWait == <<"a","s","s","e","r","t"," ","a","f","t","e","r"," ","w","a","i","t"," ","1","0">>
StepSwipeScroll == <<"S","w","i","p","e",","," ","t","h","e","n"," ","s","c","r","o","l","l">>
StepType == <<"t","y","p","e"," ","\"","b","o","b","\""," ","i","n","t","o"," ","\"","n","a","m","e","\"">>
StepWaitZero == <<"w","a","i","t"," ","0"," ","s","e","c","o","n","d","s">>
StepEnter == <<"e","n","t","e","r"," ","p","a","s","s","w","o","r","d">>
StepButton == <<"p","r","e","s","s"," ","b","u","t","t","o","n",":"," ","S","u","b","m","i","t",","," ","t","w","i","c","e">>

StepPool ==
    {StepLaunch, StepTap, StepVerify, StepWait, StepBack, StepGoto, StepEmpty,
     StepWaitMs, StepWaitBare, StepWaitItems, StepOpenTap, StepAssertWait,
     StepSwipeScroll, StepType, StepButton, StepWaitZero, StepEnter}

\* test names of results
NameCore == <<"C","o","r","e"," ","f","l","o","w">>
NameVisual == <<"V","i","s","u","a","l"," ","c","h","e","c","k">>
NameLoad == <<"p","a","g","e"," ","l","o","a","d">>
NameA11y == <<"a","1","1","y"," ","a","u","d","i","t">>
NameSmoke == <<"s","m","o","k","e">>
NameBuild == <<"b","u","i","l","d">>

NamePool == {NameCore, NameVisual, NameLoad, NameA11y, NameSmoke, NameBuild}

\* the keywords of calculateCoverage
K_function == <<"f","u","n","c","t","i","o","n">>
K_core == <<"c","o","r","e">>
K_flow == <<"f","l","o","w">>
K_visual == <<"v","i","s","u","a","l">>
K_ui == <<"u","i">>
K_interface == <<"i","n","t","e","r","f","a","c","e">>
K_performance == <<"p","e","r","f","o","r","m","a","n","c","e">>
K_load == <<"l","o","a","d">>
K_accessibility == <<"a","c","c","e","s","s","i","b","i","l","i","t","y">>
K_a11y == <<"a","1","1","y">>

\* the results calculateCoverage is given: what it reads of a TestResult
CoverageResults ==
    [testName : NamePool, status : {"passed", "failed", "error"}, performance : BOOLEAN]

\* a percentage as a fraction num / den, den > 0 (the source computes in
\* floating point; rounding is not represented)
Percent(n, d) == [num |-> 100 * n, den |-> d]

PassedIn(rs) == Cardinality({i \in 1..Len(rs) : rs[i].status = "passed"})

\* (matching.filter(t => t.status === 'passed').length / matching.length) * 100
PassRate(rs) == Percent(PassedIn(rs), Len(rs))

\* baselineScore
baselineScore(rs) == IF Len(rs) > 0 THEN PassRate(rs) ELSE Percent(0, 1)

\* baselineScore - penalty, not clamped
FallbackRaw(base, penalty) ==
    [num |-> base.num - penalty * base.den, den |-> base.den]

\* Math.max(baselineScore - penalty, 0)
Fallback(base, penalty) ==
    IF base.num - penalty * base.den > 0
      THEN [num |-> base.num - penalty * base.den, den |-> base.den]
      ELSE [num |-> 0, den |-> base.den]

\* r.testName.toLowerCase().includes(k) for some keyword k of the set
NameHas(r, ks) == \E k \in ks : Includes(ToLowerCase(r.testName), k)

\* filters that look at the test name only
MatchesName(cat, r) ==
    CASE cat = "functional" -> NameHas(r, {K_function, K_core, K_flow})
      [] cat = "visual" -> NameHas(r, {K_visual, K_ui, K_interface})
      [] cat = "performance" -> NameHas(r, {K_performance, K_load})
      [] cat = "accessibility" -> NameHas(r, {K_accessibility, K_a11y})

\* the filter of each category
Matches(cat, r) ==
    CASE cat = "functional" -> NameHas(r, {K_function, K_core, K_flow})
      [] cat = "visual" -> NameHas(r, {K_visual, K_ui, K_interface})
      [] cat = "performance" -> NameHas(r, {K_performance, K_load}) \/ r.performance
      [] cat = "accessibility" -> NameHas(r, {K_accessibility, K_a11y})

Categories == {"functional", "visual", "performance", "accessibility"}

\* what is subtracted from baselineScore when no result matches; functional
\* takes baselineScore as it is
Penalty(cat) ==
    CASE cat = "functional" -> 0
      [] cat = "visual" -> 20
      [] cat = "performance" -> 30
      [] cat = "accessibility" -> 40

\* TestEngineManager.calculateCoverage
calculateCoverage(rs) ==
    [cat \in Categories |->
       LET Test(r) == Matches(cat, r)
           matching == SelectSeq(rs, Test)
       IN  IF Len(matching) > 0 THEN PassRate(matching)
           ELSE IF cat = "functional" THEN baselineScore(rs)
           ELSE Fallback(baselineScore(rs), Penalty(cat))]

\* what the status endpoint of the Appium server can answer: fetch rejects
\* (reachable FALSE), response.ok, and the body: not JSON, or JSON whose
\* value.ready is true, false or absent
StatusAnswers ==
    [reachable : BOOLEAN, ok : BOOLEAN, body : {"invalid", "ready", "notready", "noflag"}]

\* AppiumEngine.getHealthStatus: the status it returns and details.ready
getHealthStatus(a) ==
    IF ~a.reachable THEN [status |-> "error", ready |-> FALSE]
    ELSE IF ~a.ok THEN [status |-> "unhealthy", ready |-> FALSE]
    ELSE IF a.body = "invalid" THEN [status |-> "error", ready |-> FALSE]
    ELSE [status |-> "healthy", ready |-> a.body = "ready"]

\* the selector strategies of PlaywrightEngine.clickElement and inputText
\* and of AppiumEngine.tapElement and findElement, in declaration order
ClickStrategies ==
    <<"data-testid", "text", "aria-label", "title", "button:has-text",
      "a:has-text", "direct">>
FillStrategies ==
    <<"data-testid", "placeholder", "name", "aria-label", "input:near", "direct">>
TapStrategies ==
    <<"accessibility id", "name", "ios predicate", "android uiselector",
      "xpath text", "xpath label">>

Seq1(k) == [i \in 1..k |-> i]

\* a loop that goes through every strategy and keeps the last that matched
LastMatch(page, ok) ==
    LET hits == {i \in DOMAIN page : page[i] \in ok}
    IN  IF hits = {} THEN 0 ELSE MaxOf(hits)

\* `for (const strategy of strategies) { try { ...; break } catch {} }`: the
\* strategy the loop breaks at, 0 when it runs to its end. page[i] is what
\* the page does with strategy i
FirstMatch(page, ok) ==
    LET hits == {i \in DOMAIN page : page[i] \in ok}
    IN  IF hits = {} THEN 0 ELSE MinOf(hits)

\* the loop of PlaywrightEngine.clickElement / inputText: `element` is
\* assigned the locator of each strategy tried, before its waitFor
locatorLoop(page) ==
    LET m == FirstMatch(page, {"resolves"})
        last == IF m = 0 THEN Len(page) ELSE m
    IN  [tried |-> Seq1(last), element |-> last]

\* PlaywrightEngine.clickElement: `!element` never holds after the loop, so
\* element.first().click() is called; a.acts tells whether that click
\* succeeds
clickElement(a) ==
    [tried |-> locatorLoop(a.page).tried,
     acted |-> locatorLoop(a.page).element,
     error |-> IF a.acts THEN "none" ELSE "Failed to click element"]

\* PlaywrightEngine.inputText, the same with fill()
inputText(a) ==
    [tried |-> locatorLoop(a.page).tried,
     acted |-> locatorLoop(a.page).element,
     error |-> IF a.acts THEN "none" ELSE "Failed to input text"]

\* AppiumEngine.tapElement: the loop breaks at the first element that
\* exists; without one `!(await element.isExisting())` throws
tapElement(a) ==
    LET m == FirstMatch(a.page, {"exists"}) IN
    IF m = 0
      THEN [tried |-> Seq1(Len(a.page)), acted |-> 0,
            error |-> "Element not found"]
      ELSE [tried |-> Seq1(m), acted |-> m,
            error |-> IF a.acts THEN "none" ELSE "Failed to tap element"]

\* AppiumEngine.findElement: returns the first element that exists
findElement(a) ==
    LET m == FirstMatch(a.page, {"exists"}) IN
    IF m = 0
      THEN [tried |-> Seq1(Len(a.page)), acted |-> 0,
            error |-> "Element not found with any strategy"]
      ELSE [tried |-> Seq1(m), acted |-> m, error |-> "none"]

\* parseInt(s, 10) of a string: the number its leading digits spell; 0
\* stands for NaN too (both are falsy where the result is used)
parseIntLeading(s) ==
    IF s = <<>> THEN 0 ELSE parseInt(SubSeq(s, 1, RunEnd(s, 1, Digits(s))))

\* executeAction, case 'wait' (AppiumEngine and PlaywrightEngine): the
\* milliseconds handed to delay(): parseInt(action.value, 10) || 3000
waitDelay(action) ==
    IF parseIntLeading(action.value) = 0 THEN 3000
    ELSE parseIntLeading(action.value)

\* the block(s) MaestroEngine.generateMaestroFlow writes for action i: the
\* verb, the action it stands for and the text or number it carries
Block(verb, i, text) == [verb |-> verb, of |-> i, text |-> text]

W_up == <<"u","p">>

blocksOf(action, i) ==
    CASE action.action = "launch" -> <<Block("launchApp", i, action.target)>>
      [] action.action = "tap" -> <<Block("tapOn", i, action.target)>>
      [] action.action = "input" ->
            IF action.target # <<>> /\ action.value # <<>>
              THEN <<Block("tapOn", i, action.target),
                     Block("inputText", i, action.value)>>
              ELSE <<>>
      [] action.action = "verify" -> <<Block("assertVisible", i, action.target)>>
      [] action.action = "wait" ->
            <<Block("waitForAnimationToEnd", i,
                    IF action.value = <<>> THEN toString(3000)
                    ELSE toString(parseIntLeading(action.value)))>>
      [] action.action = "scroll" -> <<Block("scroll", i, <<>>)>>
      [] action.action = "swipe" ->
            <<Block("swipe", i, IF action.target = <<>> THEN W_up ELSE action.target)>>
      [] action.action = "custom" -> <<Block("tapOn", i, action.target)>>

RECURSIVE blocksUpTo(_, _)
blocksUpTo(actions, n) ==
    IF n = 0 THEN <<>>
    ELSE blocksUpTo(actions, n - 1) \o blocksOf(actions[n], n)

\* MaestroEngine.generateMaestroFlow: the steps of the document, in order
generateMaestroFlow(steps) ==
    blocksUpTo(parseTestSteps(steps), Len(steps))

\* lines of the runner's output
LineNone == <<>>
LineBlank == <<" ">>
LineFail == <<"F","A","I","L">>
LineDone == <<"d","o","n","e">>
LinePool == {LineNone, LineBlank, LineFail, LineDone}

\* text.split('\n') of the runner's output: one line or two
Outputs == {<<l>> : l \in LinePool} \cup {<<LineDone, l>> : l \in LinePool}

\* '' split into lines
NoOutput == <<LineNone>>

\* how the runner may end: it exits with a code (127: the shell found no
\* runner), or it is killed when the timeout is over
Runs ==
    [how : {"exit"}, code : {0, 1, 127}, stdout : Outputs, stderr : Outputs]
    \cup [how : {"timeout"}, code : {0}, stdout : Outputs, stderr : Outputs]

\* MaestroEngine.executeMaestroFlow: exec resolves on exit code 0 and
\* rejects otherwise, with error.code the exit code, and null after a kill
\* (null || 1)
executeMaestroFlow(run) ==
    [stdout |-> run.stdout,
     stderr |-> run.stderr,
     exitCode |-> IF run.how = "timeout" THEN 1 ELSE run.code]

\* line => line.trim()
NonBlank(l) == \E i \in 1..Len(l) : l[i] # " "

GenericError == <<<<"M","a","e","s","t","r","o"," ","f","l","o","w"," ","e","x","e","c","u","t","i","o","n"," ","f","a","i","l","e","d">>>>

\* an error that is the generic message whatever stderr holds
genericError(stderr) == GenericError

\* result.stderr || 'Maestro flow execution failed'
runnerError(stderr) == IF stderr # NoOutput THEN stderr ELSE GenericError

\* MaestroEngine.executeTestFlow from executeMaestroFlow on: status, error
\* and the log lines pushed after the two lines about the generated flow
runFlow(run) ==
    LET result == executeMaestroFlow(run) IN
    [status |-> IF result.exitCode # 0 THEN "failed" ELSE "passed",
     error |-> IF result.exitCode # 0 THEN runnerError(result.stderr) ELSE <<>>,
     logs |-> SelectSeq(result.stdout, NonBlank) \o SelectSeq(result.stderr, NonBlank)]

\* the pages an element helper may meet: what each strategy does
\* bound: browser flows of a run whose videos are collected
MaxVideoFlows == 3

\* the characters of the file names below, in the order of their UTF-16
\* code units, by which Array.prototype.sort() compares strings
CodeUnits ==
    <<".", "0","1","2","3","4","5","6","7","8","9",
      "A","B","C","D","E","F","G","H","I","J","K","L","M",
      "N","O","P","Q","R","S","T","U","V","W","X","Y","Z", "_",
      "a","b","c","d","e","f","g","h","i","j","k","l","m",
      "n","o","p","q","r","s","t","u","v","w","x","y","z">>

CodeOf(ch) == CHOOSE i \in DOMAIN CodeUnits : CodeUnits[i] = ch

\* a comes before b in the default order of sort()
Before(a, b) ==
    \/ Len(a) < Len(b) /\ SubSeq(b, 1, Len(a)) = a
    \/ \E p \in 1..MinOf({Len(a), Len(b)}) :
          /\ SubSeq(a, 1, p - 1) = SubSeq(b, 1, p - 1)
          /\ CodeOf(a[p]) < CodeOf(b[p])

Webm == <<".","w","e","b","m">>

\* testName.replace(/[^a-zA-Z0-9]/g, '_')
Underscored(s) ==
    [i \in 1..Len(s) |->
       IF \E k \in DOMAIN CodeUnits : CodeUnits[k] = s[i] /\ s[i] \notin {".", "_"}
         THEN s[i] ELSE "_"]

\* PlaywrightEngine.collectVideo on the directory dir at time now: the last
\* of the sorted .webm names is renamed to <test name>_<now>.webm; undefined
\* (<<>>) when there is no such file or the rename fails
collectVideo(dir, testName, now, renames) ==
    IF dir = {} \/ ~renames THEN [video |-> <<>>, dir |-> dir]
    ELSE LET latestVideo == CHOOSE f \in dir : \A g \in dir \ {f} : Before(g, f)
             dest == Underscored(testName) \o <<"_">> \o toString(now) \o Webm
         IN  [video |-> dest, dir |-> (dir \ {latestVideo}) \cup {dest}]

\* the browser flows of one run with recording on, up to flow n: context
\* .close() of flow k leaves its recording in videoDir under the name the
\* browser gave it, then collectVideo runs; flows are a second apart
RECURSIVE videosUpTo(_, _)
videosUpTo(flows, n) ==
    IF n = 0 THEN [videos |-> <<>>, dir |-> {}]
    ELSE LET before == videosUpTo(flows, n - 1)
             got == collectVideo(before.dir \cup {flows[n].raw \o Webm},
                                 flows[n].name, n, flows[n].renames)
         IN  [videos |-> Append(before.videos, got.video), dir |-> got.dir]

\* flow names, and names the browser gives its recordings (random hex)
VideoFlows ==
    [name : {<<"w","e","b">>, <<"A","p","p"," ","1">>},
     raw : {<<"3","f">>, <<"a","0">>, <<"c","7">>},
     renames : BOOLEAN]

VideoRuns ==
    {r \in UNION {[1..n -> VideoFlows] : n \in 0..MaxVideoFlows} :
        \A i, j \in DOMAIN r : i # j => r[i].raw # r[j].raw}

Pages(strategies, outcomes) == [1..Len(strategies) -> outcomes]

WaitSteps == {st \in StepPool : ActionKind(st) = "wait"}

Call(fn, a) == [fn |-> fn, arg |-> a, returned |-> FALSE, value |-> <<>>]

\* the calls made
Probes ==
    {Call("clickElement", a) :
        a \in [page : Pages(ClickStrategies, {"resolves", "timeout"}), acts : BOOLEAN]}
    \cup {Call("inputText", a) :
        a \in [page : Pages(FillStrategies, {"resolves", "timeout"}), acts : BOOLEAN]}
    \cup {Call("tapElement", a) :
        a \in [page : Pages(TapStrategies, {"exists", "absent", "throws"}),
               acts : BOOLEAN]}
    \cup {Call("findElement", a) :
        a \in [page : Pages(TapStrategies, {"exists", "absent", "throws"}),
               acts : {TRUE}]}
    \cup {Call("executeAction", a) : a \in [engine : {"appium", "playwright"},
                                            step : WaitSteps]}
    \cup {Call("generateMaestroFlow", a) :
        a \in UNION {[1..n -> StepPool] : n \in 0..MaxProbeSteps}}
    \cup {Call("executeTestFlow", a) : a \in Runs}
    \cup {Call("collectVideo", a) : a \in VideoRuns}
    \cup
    {[fn |-> "parseTestSteps", arg |-> a, returned |-> FALSE, value |-> <<>>] :
        a \in UNION {[1..n -> StepPool] : n \in 0..MaxProbeSteps}}
    \cup {[fn |-> "extractWaitDuration", arg |-> a, returned |-> FALSE, value |-> <<>>] :
        a \in StepPool}
    \cup {[fn |-> "calculateCoverage", arg |-> a, returned |-> FALSE, value |-> <<>>] :
        a \in UNION {[1..n -> CoverageResults] : n \in 0..MaxProbeResults}}
    \cup {[fn |-> "getHealthStatus", arg |-> a, returned |-> FALSE, value |-> <<>>] :
        a \in StatusAnswers}

\* everything but probe
managerVars ==
    <<adapterVars, live, screenshotOnFailure, fsVars, pc, loopVars, promiseVars, fl,
      hist, orchVars>>

Returned(v) == [probe EXCEPT !.returned = TRUE, !.value = v]

ParseSteps ==
    /\ probe.fn = "parseTestSteps" /\ ~probe.returned
    /\ probe' = Returned(parseTestSteps(probe.arg))
    /\ UNCHANGED managerVars

WaitDuration ==
    /\ probe.fn = "extractWaitDuration" /\ ~probe.returned
    /\ probe' = Returned(extractWaitDuration(probe.arg))
    /\ UNCHANGED managerVars

Coverage ==
    /\ probe.fn = "calculateCoverage" /\ ~probe.returned
    /\ probe' = Returned(calculateCoverage(probe.arg))
    /\ UNCHANGED managerVars

Health ==
    /\ probe.fn = "getHealthStatus" /\ ~probe.returned
    /\ probe' = Returned(getHealthStatus(probe.arg))
    /\ UNCHANGED managerVars

ClickElement ==
    /\ probe.fn = "clickElement" /\ ~probe.returned
    /\ probe' = Returned(clickElement(probe.arg))
    /\ UNCHANGED managerVars

InputText ==
    /\ probe.fn = "inputText" /\ ~probe.returned
    /\ probe' = Returned(inputText(probe.arg))
    /\ UNCHANGED managerVars

TapElement ==
    /\ probe.fn = "tapElement" /\ ~probe.returned
    /\ probe' = Returned(tapElement(probe.arg))
    /\ UNCHANGED managerVars

FindElement ==
    /\ probe.fn = "findElement" /\ ~probe.returned
    /\ probe' = Returned(findElement(probe.arg))
    /\ UNCHANGED managerVars

\* executeAction on the wait action parsed from a step
ExecuteWait ==
    /\ probe.fn = "executeAction" /\ ~probe.returned
    /\ probe' = Returned(waitDelay(ParseStep(probe.arg.step)))
    /\ UNCHANGED managerVars

GenerateFlow ==
    /\ probe.fn = "generateMaestroFlow" /\ ~probe.returned
    /\ probe' = Returned(generateMaestroFlow(probe.arg))
    /\ UNCHANGED managerVars

RunFlow ==
    /\ probe.fn = "executeTestFlow" /\ ~probe.returned
    /\ probe' = Returned(runFlow(probe.arg))
    /\ UNCHANGED managerVars

CollectVideos ==
    /\ probe.fn = "collectVideo" /\ ~probe.returned
    /\ probe' = Returned(videosUpTo(probe.arg, Len(probe.arg)))
    /\ UNCHANGED managerVars

InitFn == Fresh /\ probe \in Probes /\ FreshOrchestrator /\ env = NoEnv

NextFn ==
    \/ ParseSteps
    \/ WaitDuration
    \/ Coverage
    \/ Health
    \/ ClickElement
    \/ InputText
    \/ TapElement
    \/ FindElement
    \/ ExecuteWait
    \/ GenerateFlow
    \/ RunFlow
    \/ CollectVideos

\* SpecFn: one call of one of these functions, on any argument of the pools
SpecFn == InitFn /\ [][NextFn]_vars

(***************************************************************************)
(* The process entry (index.ts) and QAOrchestrator.                        *)
(***************************************************************************)
Envs == [ANTHROPIC_API_KEY : {"undefined", "sk-key"}]

\* config.ts loadConfig: the parsed rawConfig when only ANTHROPIC_API_KEY
\* may be set (two of its fields shown). No field is filled from that
\* variable
loadConfig(e) ==
    [claudeCodeIntegration |-> [enabled |-> TRUE, fallbackMode |-> TRUE],
     testing |-> [defaultTimeout |-> 30000, screenshotOnFailure |-> FALSE,
                  videoRecording |-> FALSE]]

\* a property read: undefined when the object has no such field
Field(o, name) == IF name \in DOMAIN o THEN o[name] ELSE "undefined"

\* everything but the process and the orchestrator
engineVars ==
    <<adapterVars, live, screenshotOnFailure, probe, fsVars, pc, loopVars,
      promiseVars, fl, hist>>

\* main(): throws unless config.anthropicApiKey is truthy, else creates the
\* server and awaits server.start(); the catch ends the process with code 1
Main ==
    /\ proc = "boot"
    /\ IF Field(loadConfig(env), "anthropicApiKey") = "undefined"
         THEN proc' = "exit1"
         ELSE \E started \in BOOLEAN :
                 proc' = IF started THEN "running" ELSE "exit1"
    /\ UNCHANGED <<engineVars, env, testSessions, nextId, inflight, analysing,
                   answer>>

\* what client.messages.create may do: answer with text that holds the JSON
\* asked for, with text that does not, with a non-text block, or reject
AiOutcomes == {"parsed", "unparsable", "nontext", "rejected"}

\* ClaudeAPIClient.analyzeAppContext / generateTestStrategy /
\* analyzeTestResults: the parsed answer, the fallback of the parse* helper
\* when the text does not parse, and a rethrown error otherwise
clientAnswer(out) ==
    IF out = "parsed" THEN "ai"
    ELSE IF out = "unparsable" THEN "fallback"
    ELSE "throws"

Settled(op, how, out) ==
    [NoAnswer EXCEPT !.op = op, !.settled = how, !.ai = out]

\* analyzeContext up to its await: the id is made
analyzeContext ==
    /\ nextId \in SessionIds
    /\ nextId' = nextId + 1
    /\ inflight' = [inflight EXCEPT ![nextId] = "analyzeContext"]
    /\ UNCHANGED <<engineVars, env, proc, testSessions, analysing, answer>>

\* generateTestStrategy up to its await: the id is made
generateTestStrategy ==
    /\ nextId \in SessionIds
    /\ nextId' = nextId + 1
    /\ inflight' = [inflight EXCEPT ![nextId] = "generateTestStrategy"]
    /\ UNCHANGED <<engineVars, env, proc, testSessions, analysing, answer>>

\* executeTests up to its await: the id is made and the session stored as
\* 'executing'
executeTests ==
    /\ nextId \in SessionIds
    /\ nextId' = nextId + 1
    /\ inflight' = [inflight EXCEPT ![nextId] = "executeTests"]
    /\ testSessions' = [testSessions EXCEPT ![nextId] =
                          [status |-> "executing", createdAt |-> "undefined",
                           startTime |-> "recent"]]
    /\ UNCHANGED <<engineVars, env, proc, analysing, answer>>

\* testSessions.set(id, {..., createdAt: new Date(), status})
Stored(id, status) ==
    [testSessions EXCEPT ![id] = [status |-> status, createdAt |-> "recent",
                                  startTime |-> "undefined"]]

\* analyzeContext after the client call: the session is stored and the
\* promise resolves, or the catch rethrows
ContextAnalysed(id) ==
    /\ inflight[id] = "analyzeContext"
    /\ inflight' = [inflight EXCEPT ![id] = "none"]
    /\ \E out \in AiOutcomes :
         IF clientAnswer(out) = "throws"
           THEN /\ answer' = Settled("analyzeContext", "rejected", out)
                /\ UNCHANGED testSessions
           ELSE /\ answer' = Settled("analyzeContext", "resolved", out)
                /\ testSessions' = Stored(id, "analyzed")
    /\ UNCHANGED <<engineVars, env, proc, nextId, analysing>>

\* generateTestStrategy after the client call, likewise
StrategyGenerated(id) ==
    /\ inflight[id] = "generateTestStrategy"
    /\ inflight' = [inflight EXCEPT ![id] = "none"]
    /\ \E out \in AiOutcomes :
         IF clientAnswer(out) = "throws"
           THEN /\ answer' = Settled("generateTestStrategy", "rejected", out)
                /\ UNCHANGED testSessions
           ELSE /\ answer' = Settled("generateTestStrategy", "resolved", out)
                /\ testSessions' = Stored(id, "strategy_generated")
    /\ UNCHANGED <<engineVars, env, proc, nextId, analysing>>

\* executeTests after engineManager.executeTestStrategy settled: resolved,
\* the session is completed with the results; rejected, the catch rethrows
\* and the session stays as it is
TestsExecuted(id) ==
    /\ inflight[id] = "executeTests"
    /\ inflight' = [inflight EXCEPT ![id] = "none"]
    /\ \E suite \in {"resolved", "rejected"} :
         /\ answer' = Settled("executeTests", suite, "none")
         /\ testSessions' =
              IF suite = "resolved"
                THEN [testSessions EXCEPT ![id].status = "completed"]
                ELSE testSessions
    /\ UNCHANGED <<engineVars, env, proc, nextId, analysing>>

\* analyzeResults: stores nothing
analyzeResults ==
    /\ analysing < MaxAnalyses
    /\ analysing' = analysing + 1
    /\ UNCHANGED <<engineVars, env, proc, testSessions, nextId, inflight, answer>>

ResultsAnalysed ==
    /\ analysing > 0
    /\ analysing' = analysing - 1
    /\ \E out \in AiOutcomes :
         answer' = Settled("analyzeResults",
                           IF clientAnswer(out) = "throws" THEN "rejected"
                                                           ELSE "resolved", out)
    /\ UNCHANGED <<engineVars, env, proc, testSessions, nextId, inflight>>

\* counts every stored session, whatever its status
CountSessionsAny(ts, st) ==
    Cardinality({i \in SessionIds : ts[i].status # "absent"})
\* the sessions of testSessions with status st
CountSessions(ts, st) ==
    Cardinality({i \in SessionIds : ts[i].status = st})

\* getTestStatus(sessionId); sessionId 0 stands for none given, an id above
\* MaxSessions for one that was never handed out
getTestStatus(sessionId) ==
    /\ answer' =
         [op |-> "getTestStatus", settled |-> "resolved", ai |-> "none",
          activeTests |-> CountSessions(testSessions, "executing"),
          queuedTests |-> CountSessions(testSessions, "strategy_generated"),
          completedTests |-> CountSessions(testSessions, "completed"),
          session |-> IF sessionId \in SessionIds THEN testSessions[sessionId]
                                                  ELSE NoSession]
    /\ UNCHANGED <<engineVars, env, proc, testSessions, nextId, inflight, analysing>>

\* a day goes by: every date there is now lies more than 24 h back
DayPasses ==
    /\ testSessions' =
         [i \in SessionIds |->
            [testSessions[i] EXCEPT
               !.createdAt = IF @ = "recent" THEN "old" ELSE @,
               !.startTime = IF @ = "recent" THEN "old" ELSE @]]
    /\ UNCHANGED <<engineVars, env, proc, nextId, inflight, analysing, answer>>

\* QAOrchestrator.cleanup: deletes the sessions with createdAt < oneDayAgo
\* and status 'completed' (undefined < Date is false)
cleanupSessions ==
    /\ testSessions' =
         [i \in SessionIds |->
            IF testSessions[i].createdAt = "old" /\ testSessions[i].status = "completed"
              THEN NoSession ELSE testSessions[i]]
    /\ answer' = Settled("cleanup", "resolved", "none")
    /\ UNCHANGED <<engineVars, env, proc, nextId, inflight, analysing>>

InitOrch == Fresh /\ probe = NoProbe /\ FreshOrchestrator /\ env \in Envs

NextOrch ==
    \/ Main
    \/ analyzeContext
    \/ generateTestStrategy
    \/ executeTests
    \/ analyzeResults
    \/ ResultsAnalysed
    \/ DayPasses
    \/ cleanupSessions
    \/ \E id \in SessionIds : ContextAnalysed(id)
    \/ \E id \in SessionIds : StrategyGenerated(id)
    \/ \E id \in SessionIds : TestsExecuted(id)
    \/ \E sessionId \in 0..(MaxSessions + 1) : getTestStatus(sessionId)

\* SpecOrch: the process entry and any operations of one QAOrchestrator; of
\* the manager's run behind executeTests only the way its promise settles
SpecOrch == InitOrch /\ [][NextOrch]_vars

(***************************************************************************)
(* Properties of executeTestStrategy and of the adapters' life cycle.      *)
(***************************************************************************)

\* C1: the TestSuiteResult of a call has exactly one result per flow of the
\* strategy, in the strategy's order: results[i].testName is the name of
\* flow i. While the loop runs, the results recorded so far are the results
\* of the first flows, in order.
C1_OneResultPerFlow ==
    \A c \in Calls :
        /\ Len(results[c]) <= Len(strategy[c])
        /\ \A i \in 1..Len(results[c]) :
              i <= Len(strategy[c]) => results[c][i].testName = strategy[c][i].name
        /\ (pc[c] = "done" /\ outcome[c] = "resolved") =>
              /\ Len(ret[c].results) = Len(strategy[c])
              /\ \A i \in 1..Len(strategy[c]) :
                    ret[c].results[i].testName = strategy[c][i].name

\* a call returned two results, the first built by the catch of the flow
\* loop, the second by an adapter
C1_Witness ==
    \E c \in Calls :
        /\ pc[c] = "done" /\ outcome[c] = "resolved"
        /\ Len(strategy[c]) = 2
        /\ strategy[c][1].name # strategy[c][2].name
        /\ ret[c].results[1].error.kind = "unknownEngine"
        /\ ret[c].results[2].status = "passed"

\* C2: for a flow run by the appium or the playwright adapter the status is
\* 'failed' iff an action threw, 'error' iff something threw in
\* executeTestFlow outside the handling of the actions, and 'passed' iff
\* every action completed without throwing.
C2_StatusTellsWhatHappened ==
    \A c \in Calls : \A k \in 1..Len(results[c]) :
        LET r == results[c][k]
            h == hist[c][k]
        IN  h.adapter \in {"appium", "playwright"} =>
              /\ r.status = "failed" <=> h.raised # <<>>
              /\ r.status = "error" <=> h.outer
              /\ r.status = "passed" <=> (h.raised = <<>> /\ Len(h.tried) = h.n)

\* C3: when action i (0-based) is the first to throw in a flow, no later
\* action is attempted, action i was attempted once, the status is 'failed'
\* and the error names step i+1.
C3_FirstFailureEndsFlow ==
    \A c \in Calls : \A k \in 1..Len(results[c]) :
        LET r == results[c][k]
            h == hist[c][k]
        IN  (h.adapter \in {"appium", "playwright"} /\ h.raised # <<>>) =>
              LET i == h.raised[1] IN
              /\ \A j \in 1..Len(h.tried) : h.tried[j] <= i
              /\ Cardinality({j \in 1..Len(h.tried) : h.tried[j] = i}) = 1
              /\ r.status = "failed"
              /\ r.error = [kind |-> "step", step |-> i + 1]

\* C4: a call of executeTestStrategy invokes cleanup() on each of the three
\* adapters exactly once, whichever way it ends: never before the finally
\* block, never twice, and once by the time the call has settled.
C4_CleanupOncePerAdapter ==
    \A c \in Calls : \A e \in Engines :
        /\ cleanupCalls[c][e] <= 1
        /\ pc[c] \in {"init", "loop", "flow", "delay"} => cleanupCalls[c][e] = 0
        /\ pc[c] \in {"cleanup", "done"} => cleanupCalls[c][e] = 1

\* a call that ended through the rejection of initializeEngines has settled
C4_Witness ==
    \E c \in Calls :
        /\ pc[c] = "done" /\ outcome[c] = "rejected"
        /\ \A e \in Engines : cleanupCalls[c][e] = 1

\* C5: a cleanup() that rejects is not re-raised by executeTestStrategy: the
\* call still resolves with the TestSuiteResult built before cleanup (or
\* rejects with the initialization error if there was none), and cleanup()
\* was still invoked on the other two adapters and awaited.
C5_CleanupFailureSwallowed ==
    \A c \in Calls :
        (\E e \in Engines : cleanupSt[c][e] = "failed") =>
            /\ \A e \in Engines : cleanupCalls[c][e] = 1
            /\ pc[c] = "done" =>
                 /\ \A e \in Engines : cleanupSt[c][e] \in {"ok", "failed"}
                 /\ outcome[c] = "resolved" <=> \A e \in Engines : initSt[c][e] = "ok"
                 /\ outcome[c] = "resolved" =>
                       ret[c] = SuiteResult(results[c], artifacts[c])

\* deleteSession() rejected after a flow had run, and the call resolved with
\* that flow's result
C5_Witness ==
    \E c \in Calls :
        /\ pc[c] = "done" /\ outcome[c] = "resolved"
        /\ cleanupSt[c]["appium"] = "failed"
        /\ cleanupSt[c]["maestro"] = "ok" /\ cleanupSt[c]["playwright"] = "ok"
        /\ ret[c].total = 1

\* C6: executeTestStrategy rejects iff an initialize() rejected; then no flow
\* was executed and no result recorded. Otherwise it resolves, whatever the
\* flows' outcomes.
C6_RejectsIffInitFails ==
    \A c \in Calls :
        /\ (\E e \in Engines : initSt[c][e] = "failed") =>
              /\ pc[c] \notin {"loop", "flow", "delay"}
              /\ results[c] = <<>> /\ hist[c] = <<>> /\ idx[c] = 0
              /\ fl[c] = NoFlow
        /\ pc[c] = "done" =>
              /\ outcome[c] \in {"resolved", "rejected"}
              /\ outcome[c] = "rejected" <=> \E e \in Engines : initSt[c][e] = "failed"

\* a call resolved although one flow failed and another ended in error
C6_Witness ==
    \E c \in Calls :
        /\ pc[c] = "done" /\ outcome[c] = "resolved"
        /\ ret[c].failed = 1 /\ ret[c].errors = 1

\* C7: within one call the three initialize() have completed before the
\* first flow starts; flow k+1 starts only after the result of flow k was
\* recorded; and no cleanup() starts before the last flow has finished.
C7_PhasesInOrder ==
    \A c \in Calls :
        /\ (pc[c] \in {"loop", "flow", "delay"} \/ results[c] # <<>>) =>
              \A e \in Engines : initSt[c][e] = "ok"
        /\ pc[c] \in {"loop", "flow"} => Len(results[c]) = idx[c]
        /\ pc[c] = "delay" => Len(results[c]) = idx[c] + 1
        /\ (\E e \in Engines : cleanupCalls[c][e] > 0) =>
              /\ pc[c] \in {"cleanup", "done"}
              /\ fl[c] = NoFlow
              /\ ret[c].set => /\ idx[c] = Len(strategy[c])
                               /\ Len(results[c]) = Len(strategy[c])

\* the second flow of a call is running, the first one's result recorded
C7_Witness ==
    \E c \in Calls :
        /\ pc[c] = "flow" /\ idx[c] = 1 /\ Len(results[c]) = 1
        /\ fl[c].tried # <<>>

\* C8: two flows never execute on the same adapter at the same time, however
\* the executeTestStrategy calls on the one manager interleave.
C8_OneFlowPerAdapter ==
    \A c \in Calls, d \in Calls :
        (c # d /\ pc[c] = "flow" /\ pc[d] = "flow") => fl[c].engine # fl[d].engine

\* C9: at the moment a call settles with no cleanup() having failed, every
\* adapter is uninitialized and holds no session and no browser.
C9_SettledMeansReleased ==
    [][\A c \in Calls :
          (pc[c] = "cleanup" /\ pc'[c] = "done"
             /\ \A e \in Engines : cleanupSt'[c][e] = "ok") =>
          /\ \A e \in Engines : ~isInitialized'[e]
          /\ driver' = NoHandle
          /\ \A b \in BrowserNames : browsers'[b] = NoHandle]_vars

\* C10: initialize() on an adapter that is already initialized returns at
\* once: its promise is already fulfilled, and the adapter's config, session
\* and browsers, and the sessions and browsers that exist, are what they
\* were, whatever config is passed.
C10_InitializeTwiceIsNoOp ==
    [][\A c \in Calls :
          (pc[c] = "idle" /\ pc'[c] = "init") =>
             \A e \in Engines :
                isInitialized[e] =>
                   /\ initSt'[c][e] = "ok"
                   /\ isInitialized'[e]
                   /\ config'[e] = config[e]
                   /\ driver' = driver /\ browsers' = browsers /\ live' = live]_vars

\* the second call found the appium adapter still initialized by the first
\* (whose deleteSession() had rejected): its initialize() is fulfilled, the
\* driver is the first call's, the stored config is not the one passed
C10_Witness ==
    /\ pc[2] = "init"
    /\ initSt[1]["appium"] = "none"
    /\ initSt[2]["appium"] = "ok"
    /\ isInitialized["appium"]
    /\ driver = Handle(1, "appium")
    /\ config["appium"] # cfg[2]

\* C11: whenever a cleanup() call on an adapter settles, fulfilled or
\* rejected, that adapter is uninitialized and retains no session or browser
\* handle.
C11_CleanupResets ==
    [][\A c \in Calls : \A e \in Engines :
          (cleanupSt'[c][e] # cleanupSt[c][e] /\ cleanupSt'[c][e] \in {"ok", "failed"}) =>
             /\ ~isInitialized'[e]
             /\ e = "appium" => driver' = NoHandle
             /\ e = "playwright" => \A b \in BrowserNames : browsers'[b] = NoHandle]_vars

\* C12: every flow is executed by the adapter of its engine tag and by no
\* other, and its result carries that tag and the flow's name; a flow whose
\* tag names no adapter gets an 'error' result from no adapter, and the
\* flows after it are still executed.
C12_DispatchByTag ==
    \A c \in Calls :
        /\ \A k \in 1..Len(results[c]) :
              k <= Len(strategy[c]) =>
                 LET f == strategy[c][k]
                     r == results[c][k]
                     h == hist[c][k]
                 IN  /\ r.engine = f.engine /\ r.testName = f.name
                     /\ f.engine \in Engines => h.adapter = f.engine
                     /\ f.engine \notin Engines =>
                           (h.adapter = "none" /\ r.status = "error")
        /\ pc[c] = "flow" =>
              /\ fl[c].engine = strategy[c][idx[c] + 1].engine
              /\ fl[c].name = strategy[c][idx[c] + 1].name
        /\ (pc[c] = "done" /\ outcome[c] = "resolved") =>
              Len(results[c]) = Len(strategy[c])

\* a flow tagged with no adapter's name got its error result and the flow
\* after it was run by the browser adapter
C12_Witness ==
    \E c \in Calls :
        /\ pc[c] = "done" /\ outcome[c] = "resolved"
        /\ strategy[c] = <<FlowStray, FlowWeb>>
        /\ results[c][1].status = "error" /\ hist[c][1].adapter = "none"
        /\ hist[c][2].adapter = "playwright" /\ hist[c][2].tried # <<>>

\* C13: the browser flow [launch https://example.com, tap "Login", verify
\* "Welcome"], run against a page without a "Login" control (the tap, if
\* attempted, throws) and with nothing thrown outside the actions, ends
\* 'failed' with an error naming step 2 and a failure screenshot, and the
\* verify action is never attempted.
C13_ExampleFailsAtLogin ==
    \A c \in Calls : \A k \in 1..Len(results[c]) :
        LET r == results[c][k]
            h == hist[c][k]
            done(i) == \E j \in 1..Len(h.tried) : h.tried[j] = i
            threw(i) == \E j \in 1..Len(h.raised) : h.raised[j] = i
        IN  (strategy[c][k] = FlowExample /\ ~h.outer /\ (done(1) => threw(1))) =>
              /\ r.status = "failed"
              /\ r.error = [kind |-> "step", step |-> 2]
              /\ \E j \in 1..Len(r.screenshots) : r.screenshots[j].tag = "failure"
              /\ ~done(2)

\* C19: two runs of the same failing strategy on one manager are independent:
\* every screenshot in a run's results was made by that run, and when a run
\* starts no generated flow document of an earlier run is left (SpecTwice)
C19_RunsIndependent ==
    \A c \in Calls :
        /\ \A k \in DOMAIN results[c] :
               \A j \in DOMAIN results[c][k].screenshots :
                   results[c][k].screenshots[j].from = c
        /\ pc[c] = "init" => \A d \in flowFiles : ~(d.run < c)

\* C26: in the session and the browser adapter a step screenshot is taken
\* after an action that succeeded exactly when its kind is tap, input or
\* verify and the screenshot flag is on; a failure screenshot is taken
\* after the failing action whatever the flag; a screenshot is in the
\* result only if it was taken. (A capture that fails leaves no entry.)
C26_StepScreenshotPolicy ==
    \A c \in Calls :
        LET f == fl[c]
            Tried(j) == \E k \in DOMAIN f.tried : f.tried[k] = j
            Raised(j) == \E k \in DOMAIN f.raised : f.raised[k] = j
            Took(type, j) ==
                \E k \in DOMAIN f.attempts : f.attempts[k] = [tag |-> type, idx |-> j]
        IN  f.engine \in {"appium", "playwright"} =>
              /\ \A j \in 0..(Len(f.actions) - 1) :
                    /\ Took("step", j) <=>
                          /\ Tried(j) /\ ~Raised(j)
                          /\ f.actions[j + 1].action \in {"tap", "input", "verify"}
                          /\ screenshotOnFailure
                    /\ Took("failure", j) <=> Raised(j)
              /\ \A k \in DOMAIN f.screenshots :
                    Took(f.screenshots[k].tag, f.screenshots[k].idx)

\* with the flag on, a flow whose tap was followed by a step screenshot and
\* whose next action, not one of the three kinds, went without; and with
\* the flag off, a flow that took the failure screenshot
C26_Witness ==
    \E c \in Calls :
        /\ fl[c].engine = "appium"
        /\ \/ /\ screenshotOnFailure
              /\ fl[c].i = 2
              /\ fl[c].actions[2].action = "wait"
              /\ fl[c].attempts = <<[tag |-> "step", idx |-> 0]>>
           \/ /\ ~screenshotOnFailure
              /\ fl[c].attempts = <<[tag |-> "failure", idx |-> 0]>>
              /\ Len(fl[c].screenshots) = 1

\* C27: the screenshots of a result of the session or the browser adapter
\* are in increasing order of step, with at most one failure screenshot,
\* which comes last; the suite's artifacts.screenshots are the screenshots
\* of the results recorded so far, one result after the other, and so are
\* those of the returned suite.
C27_ScreenshotsAppendOnly ==
    \A c \in Calls :
        LET rs == results[c]
            cat[k \in 0..Len(rs)] ==
                IF k = 0 THEN <<>> ELSE cat[k - 1] \o rs[k].screenshots
            Ordered(shots) ==
                /\ \A a, b \in DOMAIN shots : a < b => shots[a].idx <= shots[b].idx
                /\ \A a, b \in DOMAIN shots :
                      (a < b /\ shots[b].tag = "step") => shots[a].idx < shots[b].idx
                /\ \A a \in DOMAIN shots :
                      shots[a].tag = "failure" => a = Len(shots)
        IN  /\ fl[c].engine \in {"appium", "playwright"} => Ordered(fl[c].screenshots)
            /\ \A k \in DOMAIN rs :
                  rs[k].engine \in {"appium", "playwright"} => Ordered(rs[k].screenshots)
            /\ pc[c] \in {"loop", "flow", "delay"} => artifacts[c] = cat[Len(rs)]
            /\ ret[c].set =>
                  /\ ret[c].results = rs
                  /\ ret[c].screenshots = cat[Len(rs)]

\* a suite of two flows that both left screenshots, the first a step and a
\* failure screenshot
C27_Witness ==
    \E c \in Calls :
        /\ ret[c].set
        /\ Len(results[c]) = 2
        /\ Len(results[c][1].screenshots) = 2
        /\ results[c][1].screenshots[2].tag = "failure"
        /\ Len(results[c][2].screenshots) >= 1
        /\ Len(ret[c].screenshots) >= 3

\* C31: each executeTestFlow of the declarative adapter that gets to the
\* runner has written exactly one flow document, to a path no document lay
\* at; and when cleanup() of that adapter has completed, no generated flow
\* document is left in the temp directory.
C31_FlowDocuments ==
    [][/\ \A c \in Calls :
             (pc[c] = "loop" /\ pc'[c] = "flow" /\ fl'[c].engine = "maestro") =>
                 /\ flowFiles \subseteq flowFiles'
                 /\ Cardinality(flowFiles' \ flowFiles) = 1
       /\ \A c \in Calls :
             (cleanupSt[c]["maestro"] = "pending" /\ cleanupSt'[c]["maestro"] = "ok") =>
                 flowFiles' = {}]_vars

\* C32: the flow loop of executeTestStrategy leaves a flow behind only
\* through the inter-flow delay: after every flow, be its result the
\* adapter's or the error result built by the catch of the loop, the delay
\* elapses before the next turn of the loop.
C32_DelayAfterEveryFlow ==
    [][\A c \in Calls :
          idx'[c] = idx[c] + 1 =>
             /\ pc[c] = "delay" /\ pc'[c] = "loop"
             /\ Len(results[c]) = idx'[c]]_vars

\* C33: in every TestSuiteResult a call returns, summary.total is the number
\* of results and the sum of summary.passed, failed, skipped and errors, and
\* each of the four is the number of results with that status.
C33_SummaryCounts ==
    \A c \in Calls :
        ret[c].set =>
            LET rs == ret[c].results
                With(st) == {i \in 1..Len(rs) : rs[i].status = st}
            IN  /\ ret[c].total = Len(rs)
                /\ ret[c].total =
                      ret[c].passed + ret[c].failed + ret[c].skipped + ret[c].errors
                /\ ret[c].passed = Cardinality(With("passed"))
                /\ ret[c].failed = Cardinality(With("failed"))
                /\ ret[c].skipped = Cardinality(With("skipped"))
                /\ ret[c].errors = Cardinality(With("error"))

\* a call resolved with the summary of a passed flow and a flow in error
C33_Witness ==
    \E c \in Calls :
        /\ pc[c] = "done" /\ outcome[c] = "resolved"
        /\ ret[c].total = 2 /\ ret[c].passed = 1 /\ ret[c].errors = 1
        /\ ret[c].failed = 0 /\ ret[c].skipped = 0

\* C35: once the initialization of a run has completed, no flow of the run
\* that is dispatched to a known engine ends with the 'engine not
\* initialized' error result, also when another executeTestStrategy call on
\* the same manager reaches its cleanup meanwhile. (SpecShared)
C35_FlowsRunInitialized ==
    \A c \in Calls : \A k \in DOMAIN results[c] :
        (k <= Len(strategy[c]) /\ strategy[c][k].engine \in Engines) =>
            results[c][k].error.kind # "notInitialized"

\* C36: however two initialize() calls on the same uninitialized adapter
\* interleave, the adapter's backend resource is acquired at most once: at
\* no time do two device sessions, or two browsers, exist, and no handle an
\* adapter holds is replaced by another while its session or browser still
\* exists. (SpecShared)
C36_AcquiredOnce ==
    [][/\ \A e \in {"appium", "playwright"} :
             Cardinality({c \in Calls : Handle(c, e) \in live'}) <= 1
       /\ (driver' # driver /\ driver' # NoHandle) => driver \notin live
       /\ \A b \in BrowserNames :
             (browsers'[b] # browsers[b] /\ browsers'[b] # NoHandle) =>
                 browsers[b] \notin live]_vars

\* C37: executeTestFlow of each of the three adapters never rejects: the
\* flow loop gets a result from it (and goes on to its delay, which the
\* catch of the loop does not) in whatever state the adapter is and whatever
\* fails inside. The result carries the flow's name and the adapter's own
\* tag. Called on an adapter that is not initialized it gives status
\* 'error' at once and attempts no action. (SpecBeside)
C37_FlowNeverRejects ==
    [][\A c \in Calls :
          LET k == Len(results'[c])
              flow == strategy[c][k]
              r == results'[c][k]
              h == hist'[c][k]
          IN  /\ (k = Len(results[c]) + 1 /\ flow.engine \in Engines) =>
                    /\ pc'[c] = "delay"
                    /\ r.testName = flow.name
                    /\ r.engine = flow.engine /\ h.adapter = flow.engine
                    /\ r.status \in {"passed", "failed", "skipped", "error"}
                    /\ r.error.kind # "unknownEngine"
                    /\ (pc[c] = "loop" /\ ~isInitialized[flow.engine]) =>
                          (r.status = "error" /\ h.tried = <<>>)
              /\ (pc[c] = "loop" /\ pc'[c] = "flow") =>
                    isInitialized[fl'[c].engine]]_vars

\* each adapter was called when the other request had cleaned it up, and
\* has answered with an 'error' result for the flow
C37_Witness ==
    \E c \in Calls :
        /\ pc[c] = "delay"
        /\ Len(results[c]) = 1
        /\ results[c][1].testName = strategy[c][1].name
        /\ results[c][1].engine \in Engines
        /\ results[c][1].error.kind = "notInitialized"
        /\ hist[c][1].tried = <<>>

(***************************************************************************)
(* Properties of the step parser, the coverage estimate and the health     *)
(* check.                                                                  *)
(***************************************************************************)

\* C14: parseTestSteps returns one action per step, in the order of the
\* steps, and action i is what parsing step i on its own gives; this for
\* every sequence of steps, the empty sequence and empty steps included.
C14_OneActionPerStep ==
    (probe.fn = "parseTestSteps" /\ probe.returned) =>
        /\ Len(probe.value) = Len(probe.arg)
        /\ \A i \in 1..Len(probe.arg) :
              /\ i <= Len(probe.value)
              /\ probe.value[i].step = probe.arg[i]
              /\ probe.value[i] = ParseStep(probe.arg[i])

\* an empty step followed by a tap step was parsed into two actions
C14_Witness ==
    /\ probe.fn = "parseTestSteps" /\ probe.returned
    /\ probe.arg = <<StepEmpty, StepTap>>
    /\ probe.value[1].action = "custom"
    /\ probe.value[2].action = "tap"

\* C15: the kind of an action is that of the first rule, in the order
\* launch|open, tap|click, type|enter, verify|assert, wait, scroll, swipe,
\* one of whose words occurs in the step, letter case ignored; a step with
\* no such word becomes custom with the step itself as target.
C15_FirstRuleWins ==
    LET rules == << [kind |-> "launch", words |-> {W_launch, W_open}],
                    [kind |-> "tap", words |-> {W_tap, W_click}],
                    [kind |-> "input", words |-> {W_type, W_enter}],
                    [kind |-> "verify", words |-> {W_verify, W_assert}],
                    [kind |-> "wait", words |-> {W_wait}],
                    [kind |-> "scroll", words |-> {W_scroll}],
                    [kind |-> "swipe", words |-> {W_swipe}] >>
        Fires(n, st) == \E w \in rules[n].words : Includes(ToLowerCase(st), w)
    IN  (probe.fn = "parseTestSteps" /\ probe.returned) =>
          \A i \in 1..Len(probe.value) :
             LET st == probe.arg[i]
                 a == probe.value[i]
             IN  /\ \A n \in 1..Len(rules) :
                       (Fires(n, st) /\ \A m \in 1..(n - 1) : ~Fires(m, st))
                          => a.action = rules[n].kind
                 /\ (\A n \in 1..Len(rules) : ~Fires(n, st))
                          => (a.action = "custom" /\ a.target = st)

\* a step with the words of the launch and of the tap rule, and a step with
\* no rule's word, were parsed
C15_Witness ==
    /\ probe.fn = "parseTestSteps" /\ probe.returned
    /\ probe.arg = <<StepOpenTap, StepBack>>
    /\ probe.value[1].action = "launch"
    /\ probe.value[2].action = "custom" /\ probe.value[2].target = StepBack

\* C16: the duration parsed from a step is n ms when its first integer is n
\* and it contains 'ms' or 'millisecond', n * 1000 ms when its first integer
\* is n and it does not, 3000 ms when it has no integer; "wait 5 seconds"
\* gives 5000, "wait 500 ms" 500, "wait" 3000.
C16_WaitDuration ==
    /\ (probe.fn = "extractWaitDuration" /\ probe.returned) =>
          LET st == probe.arg
              low == ToLowerCase(st)
              inMs == Includes(low, W_ms) \/ Includes(low, W_millisecond)
              n == parseInt(FirstDigits(st))
          IN  /\ (FirstDigits(st) # <<>> /\ inMs) => probe.value = n
              /\ (FirstDigits(st) # <<>> /\ ~inMs) => probe.value = n * 1000
              /\ FirstDigits(st) = <<>> => probe.value = 3000
              /\ st = StepWait => probe.value = 5000
              /\ st = StepWaitMs => probe.value = 500
              /\ st = StepWaitBare => probe.value = 3000
    /\ (probe.fn = "parseTestSteps" /\ probe.returned) =>
          \A i \in 1..Len(probe.value) :
             (probe.value[i].action = "wait" /\ probe.arg[i] = StepWait)
                => probe.value[i].value = toString(5000)

\* the duration of "wait 500 ms" was extracted
C16_Witness ==
    /\ probe.fn = "extractWaitDuration" /\ probe.returned
    /\ probe.arg = StepWaitMs
    /\ probe.value = 500

\* C17: each of the four coverage values lies between 0 and 100, for every
\* list of results, the empty list and lists matching no keyword included.
C17_CoverageInRange ==
    (probe.fn = "calculateCoverage" /\ probe.returned) =>
        \A cat \in Categories :
            /\ probe.value[cat].den > 0
            /\ 0 <= probe.value[cat].num
            /\ probe.value[cat].num <= 100 * probe.value[cat].den

\* coverage was computed for one failed result whose name has no keyword
C17_Witness ==
    /\ probe.fn = "calculateCoverage" /\ probe.returned
    /\ probe.arg = <<[testName |-> NameSmoke, status |-> "failed", performance |-> FALSE]>>
    /\ probe.value["accessibility"].num = 0

\* C18: a category matched by some result (keyword in the test name, or for
\* performance a result with performance metrics) has the percentage of
\* passed results among the matching ones; a category matched by none has
\* max(overall pass percentage - penalty, 0), the penalty being 0, 20, 30
\* and 40 for functional, visual, performance and accessibility.
C18_CoverageValue ==
    LET words == [cat \in Categories |->
                    CASE cat = "functional" -> {K_function, K_core, K_flow}
                      [] cat = "visual" -> {K_visual, K_ui, K_interface}
                      [] cat = "performance" -> {K_performance, K_load}
                      [] cat = "accessibility" -> {K_accessibility, K_a11y}]
        penalty == [cat \in Categories |->
                    CASE cat = "functional" -> 0 [] cat = "visual" -> 20
                      [] cat = "performance" -> 30 [] cat = "accessibility" -> 40]
    IN  (probe.fn = "calculateCoverage" /\ probe.returned) =>
          \A cat \in Categories :
             LET rs == probe.arg
                 v == probe.value[cat]
                 hit == {i \in 1..Len(rs) :
                           \/ \E k \in words[cat] : Includes(ToLowerCase(rs[i].testName), k)
                           \/ cat = "performance" /\ rs[i].performance}
                 ok(S) == Cardinality({i \in S : rs[i].status = "passed"})
                 all == 1..Len(rs)
             IN  /\ hit # {} => v.num * Cardinality(hit) = 100 * ok(hit) * v.den
                 /\ (hit = {} /\ all # {}) =>
                       LET d == 100 * ok(all) - penalty[cat] * Len(rs)
                       IN  v.num * Len(rs) = (IF d > 0 THEN d ELSE 0) * v.den
                 /\ (hit = {} /\ all = {}) => v.num = 0

\* a passed result with performance metrics and no keyword and a failed
\* "Core flow" result: performance 100, functional 0, visual 50 - 20
C18_Witness ==
    /\ probe.fn = "calculateCoverage" /\ probe.returned
    /\ probe.arg = <<[testName |-> NameSmoke, status |-> "passed", performance |-> TRUE],
                     [testName |-> NameCore, status |-> "failed", performance |-> FALSE]>>
    /\ probe.value["performance"].num = 100 * probe.value["performance"].den
    /\ probe.value["functional"].num = 0
    /\ probe.value["visual"].num = 30 * probe.value["visual"].den

\* C20: AppiumEngine.getHealthStatus returns 'healthy' iff the status
\* endpoint is reachable and its readiness flag is true, and 'unhealthy' or
\* 'error' in every other case.
C20_HealthyIffReady ==
    (probe.fn = "getHealthStatus" /\ probe.returned) =>
        /\ probe.value.status \in {"healthy", "unhealthy", "error"}
        /\ probe.value.status = "healthy" <=>
              (probe.arg.reachable /\ probe.arg.ok /\ probe.arg.body = "ready")

\* C38: with video recording on, after a run of several browser flows the
\* video paths of the results are pairwise distinct and each of them names
\* a file that is still in the video directory. (SpecFn)
C38_VideosKept ==
    (probe.fn = "collectVideo" /\ probe.returned) =>
        LET v == probe.value.videos IN
        /\ \A i, j \in DOMAIN v : (i # j /\ v[i] # <<>>) => v[i] # v[j]
        /\ \A i \in DOMAIN v : v[i] # <<>> => v[i] \in probe.value.dir

(***************************************************************************)
(* Properties of the process entry and of QAOrchestrator (SpecOrch).       *)
(***************************************************************************)

\* C21: with no Anthropic API key configured, main() gets to server.start
\* and the process stays running: once main has left its start, the process
\* runs. (SpecOrch)
C21_StartsWithoutKey ==
    (env.ANTHROPIC_API_KEY = "undefined" /\ proc # "boot") => proc = "running"

\* C22: when the call to the AI collaborator fails, analyzeContext,
\* generateTestStrategy and analyzeResults resolve (with a fallback) and do
\* not reject. (SpecOrch)
C22_DegradesGracefully ==
    (/\ answer.op \in {"analyzeContext", "generateTestStrategy", "analyzeResults"}
     /\ answer.ai = "rejected")
        => answer.settled = "resolved"

C34_EvictsOldCompleted ==
    [][(answer' # answer /\ answer'.op = "cleanup") =>
          \A i \in SessionIds :
             LET old == "old" \in {testSessions[i].createdAt, testSessions[i].startTime}
             IN  testSessions'[i] =
                    IF testSessions[i].status = "completed" /\ old
                      THEN NoSession ELSE testSessions[i]]_vars

\* C39: when an executeTests call settles, resolved or rejected, the session
\* it registered is no longer 'executing'; so whenever no executeTests call
\* is in progress no session is 'executing', and a getTestStatus answered
\* then reports activeTests = 0. (SpecOrch)
C39_SettledNotExecuting ==
    [][/\ \A id \in SessionIds :
             (inflight[id] = "executeTests" /\ inflight'[id] = "none") =>
                 testSessions'[id].status # "executing"
       /\ (/\ answer' # answer /\ answer'.op = "getTestStatus"
           /\ \A id \in SessionIds : inflight[id] # "executeTests") =>
                 answer'.activeTests = 0]_vars

(***************************************************************************)
(* Properties of the element helpers, of the wait action and of the        *)
(* declarative adapter's document and verdict (SpecFn).                    *)
(***************************************************************************)

\* C24: when no selector strategy of clickElement or inputText resolves, the
\* action fails and no click or fill is attempted on any element.
C24_NotFoundWithoutAct ==
    (/\ probe.fn \in {"clickElement", "inputText"}
     /\ probe.returned
     /\ \A i \in DOMAIN probe.arg.page : probe.arg.page[i] = "timeout")
        => (probe.value.error # "none" /\ probe.value.acted = 0)

\* C25: the element helpers of the browser and the session adapter try
\* their strategies in declaration order, stop at the first that matches,
\* and act on (or return) the element of the earliest matching strategy.
C25_EarliestStrategyWins ==
    (probe.fn \in {"clickElement", "inputText", "tapElement", "findElement"}
     /\ probe.returned)
        => LET page == probe.arg.page
               ok == IF probe.fn \in {"clickElement", "inputText"}
                       THEN {"resolves"} ELSE {"exists"}
               M == {i \in DOMAIN page : page[i] \in ok}
           IN  /\ \E k \in 1..Len(page) : probe.value.tried = [i \in 1..k |-> i]
               /\ M # {} =>
                    /\ \A i \in M : Len(probe.value.tried) <= i
                    /\ probe.value.tried[Len(probe.value.tried)] \in M
                    /\ probe.value.acted \in M
                    /\ \A i \in M : probe.value.acted <= i
               /\ M = {} => Len(probe.value.tried) = Len(page)

\* a target that the test-id and the text strategy of clickElement both
\* match, and one that only the last two strategies of tapElement match
C25_Witness ==
    /\ probe.returned
    /\ \/ /\ probe.fn = "clickElement"
          /\ probe.arg.page[1] = "resolves" /\ probe.arg.page[2] = "resolves"
          /\ probe.value.acted = 1
       \/ /\ probe.fn = "tapElement"
          /\ probe.arg.page[5] = "exists" /\ probe.arg.page[6] = "exists"
          /\ probe.value.acted = 5

\* C28: the time slept for a wait action is the duration the parser
\* extracted from the step, 0 included.
C28_LiteralSleep ==
    (probe.fn = "executeAction" /\ probe.returned)
        => probe.value = extractWaitDuration(probe.arg.step)

\* C29: the generated flow document has, for every parsed action and in
\* action order, a block with the verb of the action's kind.
C29_EveryActionHasBlock ==
    (probe.fn = "generateMaestroFlow" /\ probe.returned)
        => LET actions == parseTestSteps(probe.arg)
               doc == probe.value
               Verb(kind) ==
                   CASE kind = "launch" -> "launchApp"
                     [] kind = "tap" -> "tapOn"
                     [] kind = "input" -> "inputText"
                     [] kind = "verify" -> "assertVisible"
                     [] kind = "wait" -> "waitForAnimationToEnd"
                     [] kind = "scroll" -> "scroll"
                     [] kind = "swipe" -> "swipe"
                     [] kind = "custom" -> "tapOn"
           IN  /\ \A i \in 1..Len(actions) :
                     \E b \in 1..Len(doc) :
                         doc[b].of = i /\ doc[b].verb = Verb(actions[i].action)
               /\ \A b1, b2 \in 1..Len(doc) : b1 < b2 => doc[b1].of <= doc[b2].of

\* C30: the declarative adapter's status is 'passed' exactly when the runner
\* exits with code 0; otherwise (another exit code, a timeout, no runner) it
\* is 'failed' with stderr as the error, or the generic message when stderr
\* is empty; the non-blank lines of stdout and stderr go to the logs.
C30_RunnerVerdict ==
    (probe.fn = "executeTestFlow" /\ probe.returned)
        => LET run == probe.arg
               v == probe.value
               clean == run.how = "exit" /\ run.code = 0
               Logged(out) ==
                   \A i \in 1..Len(out) :
                       (\E j \in 1..Len(out[i]) : out[i][j] # " ")
                          => \E k \in 1..Len(v.logs) : v.logs[k] = out[i]
           IN  /\ v.status = "passed" <=> clean
               /\ ~clean => v.status = "failed"
               /\ (~clean /\ run.stderr # <<LineNone>>) => v.error = run.stderr
               /\ (~clean /\ run.stderr = <<LineNone>>) => v.error = GenericError
               /\ Logged(run.stdout) /\ Logged(run.stderr)

\* a runner killed at the timeout that wrote a line to stderr, and one that
\* found no runner and wrote nothing
C30_Witness ==
    /\ probe.fn = "executeTestFlow" /\ probe.returned
    /\ \/ /\ probe.arg.how = "timeout" /\ probe.arg.stderr = <<LineFail>>
          /\ probe.value.status = "failed" /\ probe.value.error = <<LineFail>>
       \/ /\ probe.arg.code = 127 /\ probe.arg.stderr = <<LineNone>>
          /\ probe.value.status = "failed"

====
